---- MODULE Spec2Model ----
(***************************************************************************)
(* License Detection & Risk Intelligence Engine of the Smart Dependency   *)
(* Analyzer: the per-package LicenseDetector (license-detector.ts) and    *)
(* the LicenseIntelligenceServiceImpl that orchestrates batched           *)
(* detection, policy validation and legal-risk assembly.                  *)
(*                                                                         *)
(* Conventions of the model:                                               *)
(*   - an optional value (License | undefined) is a sequence of length    *)
(*     0 or 1;                                                             *)
(*   - a confidence c in [0,1] is the integer 10*c (1.0 = 10, 0.9 = 9);   *)
(*   - a JavaScript number is the record [kind, val], kind telling an    *)
(*     integer from NaN and the infinities;                                *)
(*   - a Map is the sequence of its values in insertion order.            *)
(***************************************************************************)
EXTENDS Integers, Sequences, FiniteSets, TLC

(***************************************************************************)
(* Bounds of the model.                                                    *)
(***************************************************************************)
\* Largest package list handed to one analyzeLicenses call.
MaxPkgs == 11
\* Largest package list handed to validatePolicy and to assessLegalRisk.
MaxPolicyPkgs == 2
MaxRiskPkgs == 2
\* How many times validatePolicy is called in a row on the same input.
MaxCalls == 2
\* Largest summary.riskScore and conflict count the Compatibility Engine reports.
MaxCompatRisk == 205
MaxConflicts == 1
\* Largest score fed to the two score-to-level mappings.
MaxScore == 100
\* Largest package list whose detections are examined one analysis at a time.
MaxDetectPkgs == 2
\* Largest package list handed to generateComplianceDocument.
MaxDocPkgs == 2
\* Largest package list of the calls that go on to the Compatibility Engine.
MaxEnginePkgs == 2
\* Length of the long package list whose analysis is followed to its return,
\* and of the short ones.
MaxLivePkgs == 11
MaxShortPkgs == 2

(***************************************************************************)
(* Static tables of license-detector.ts.                                   *)
(***************************************************************************)
LICENSE_FILE_PATTERNS ==
  << "LICENSE", "LICENSE.txt", "LICENSE.md", "LICENCE", "LICENCE.txt",
     "LICENCE.md", "COPYING", "COPYING.txt", "COPYRIGHT", "COPYRIGHT.txt",
     "NOTICE", "NOTICE.txt" >>

LICENSE_TEXT_PATTERNS ==
  << [spdxId |-> "MIT",           confidence |-> 9],
     [spdxId |-> "Apache-2.0",    confidence |-> 9],
     [spdxId |-> "GPL-3.0-only",  confidence |-> 9],
     [spdxId |-> "GPL-2.0-only",  confidence |-> 9],
     [spdxId |-> "LGPL-3.0-only", confidence |-> 9],
     [spdxId |-> "LGPL-2.1-only", confidence |-> 9],
     [spdxId |-> "MPL-2.0",       confidence |-> 9],
     [spdxId |-> "BSD-3-Clause",  confidence |-> 8],
     [spdxId |-> "BSD-2-Clause",  confidence |-> 8],
     [spdxId |-> "ISC",           confidence |-> 8],
     [spdxId |-> "CC0-1.0",       confidence |-> 8],
     [spdxId |-> "Unlicense",     confidence |-> 9] >>

\* createObligation's obligationDetails table: the severity of each type.
ObligationSeverity(type) ==
  CASE type = "attribution"         -> "medium"
    [] type = "copyleft"            -> "high"
    [] type = "disclose_source"     -> "high"
    [] type = "same_license"        -> "high"
    [] type = "patent_grant"        -> "medium"
    [] type = "no_commercial_use"   -> "critical"
    [] type = "share_alike"         -> "high"
    [] type = "notice_preservation" -> "medium"

createObligation(type) == [type |-> type, severity |-> ObligationSeverity(type)]

(***************************************************************************)
(* The License Store (license-database, an external collaborator): a      *)
(* static, read-only lookup spdxId -> License | absent.                    *)
(***************************************************************************)
StoreIds ==
  { "MIT", "Apache-2.0", "ISC", "CC0-1.0", "LGPL-3.0-only", "MPL-2.0",
    "GPL-3.0-only", "GPL-2.0-only", "AGPL-3.0-only", "LicenseRef-Proprietary" }

StoreCategory(id) ==
  CASE id \in {"MIT", "Apache-2.0", "ISC"}         -> "permissive"
    [] id = "CC0-1.0"                              -> "public_domain"
    [] id \in {"LGPL-3.0-only", "MPL-2.0"}         -> "weak_copyleft"
    [] id \in {"GPL-3.0-only", "GPL-2.0-only", "AGPL-3.0-only"} -> "copyleft"
    [] id = "LicenseRef-Proprietary"               -> "proprietary"

StoreObligations(id) ==
  CASE id = "MIT"           -> << "attribution", "notice_preservation" >>
    [] id = "Apache-2.0"    -> << "attribution", "patent_grant", "notice_preservation" >>
    [] id = "ISC"           -> << "attribution" >>
    [] id = "CC0-1.0"       -> << >>
    [] id = "LGPL-3.0-only" -> << "disclose_source", "notice_preservation" >>
    [] id = "MPL-2.0"       -> << "disclose_source", "same_license", "attribution" >>
    [] id = "GPL-3.0-only"  -> << "copyleft", "disclose_source", "same_license" >>
    [] id = "GPL-2.0-only"  -> << "copyleft", "disclose_source", "same_license" >>
    [] id = "AGPL-3.0-only" -> << "copyleft", "disclose_source", "same_license" >>
    [] id = "LicenseRef-Proprietary" -> << "no_commercial_use" >>

\* getLicense(spdxId): the canonical record, or undefined.
getLicense(id) ==
  IF id \in StoreIds
    THEN << [spdxId      |-> id,
             category    |-> StoreCategory(id),
             obligations |-> StoreObligations(id),
             confidence  |-> 10,
             deprecated  |-> (id \in {"GPL-3.0-only", "GPL-2.0-only"})] >>
    ELSE << >>

\* { ...license, confidence: c }
WithConfidence(license, c) == [license EXCEPT !.confidence = c]

(***************************************************************************)
(* LicenseDetector.                                                        *)
(*                                                                         *)
(* A Package is [name, license, path, files]:                              *)
(*   license : << >> (none declared) or << [text, parts] >>, the trimmed  *)
(*             expression and the tokens its AND/OR split yields;          *)
(*   path    : whether the package has a filesystem root;                  *)
(*   files   : per candidate filename, [exists, unreadable, matches]:     *)
(*             whether access succeeds, whether readFile then raises, and  *)
(*             the indices of LICENSE_TEXT_PATTERNS whose regex matches.   *)
(* dbFault says that the store raises on lookup during this detection.     *)
(* The copyright statements and the metadata of an analysis (timestamps)   *)
(* are left out: only document rendering reads them.                       *)
(***************************************************************************)
RECURSIVE FirstResolvable(_)
\* the for-loop over parts: the first token the store knows, at 0.8
FirstResolvable(parts) ==
  IF parts = << >> THEN << >>
  ELSE IF getLicense(Head(parts)) # << >>
         THEN << WithConfidence(getLicense(Head(parts))[1], 8) >>
         ELSE FirstResolvable(Tail(parts))

detectDeclaredLicense(pkg) ==
  IF pkg.license = << >> THEN << >>
  ELSE IF getLicense(pkg.license[1].text) # << >>
         THEN << WithConfidence(getLicense(pkg.license[1].text)[1], 10) >>
         ELSE FirstResolvable(pkg.license[1].parts)

RECURSIVE FirstPattern(_, _)
\* analyzeLicenseText: the first matching pattern whose spdxId the store has
FirstPattern(matches, p) ==
  IF p > Len(LICENSE_TEXT_PATTERNS) THEN << >>
  ELSE IF p \in matches /\ getLicense(LICENSE_TEXT_PATTERNS[p].spdxId) # << >>
         THEN << [license    |-> WithConfidence(
                                   getLicense(LICENSE_TEXT_PATTERNS[p].spdxId)[1],
                                   LICENSE_TEXT_PATTERNS[p].confidence),
                  confidence |-> LICENSE_TEXT_PATTERNS[p].confidence] >>
         ELSE FirstPattern(matches, p + 1)

analyzeLicenseText(matches) == FirstPattern(matches, 1)

RECURSIVE ScanFiles(_, _, _)
\* the loop of analyzeLicenseFiles over LICENSE_FILE_PATTERNS; a missing
\* file, and any fault raised while the file is handled, is swallowed by
\* the catch and the loop goes on
ScanFiles(pkg, dbFault, f) ==
  IF f > Len(LICENSE_FILE_PATTERNS) THEN << >>
  ELSE LET file == pkg.files[f]
           hit  == IF file.exists /\ ~file.unreadable /\ ~dbFault
                     THEN analyzeLicenseText(file.matches) ELSE << >>
           here == IF hit = << >> THEN << >>
                   ELSE << [path       |-> LICENSE_FILE_PATTERNS[f],
                            license    |-> hit[1].license,
                            confidence |-> hit[1].confidence] >>
       IN  here \o ScanFiles(pkg, dbFault, f + 1)

analyzeLicenseFiles(pkg, dbFault) ==
  IF ~pkg.path THEN << >> ELSE ScanFiles(pkg, dbFault, 1)

RECURSIVE IndexOfId(_, _, _)
\* position of the entry keyed spdxId in a Map's value list, 0 when absent
IndexOfId(licenses, spdxId, n) ==
  IF n > Len(licenses) THEN 0
  ELSE IF licenses[n].spdxId = spdxId THEN n
  ELSE IndexOfId(licenses, spdxId, n + 1)

\* Map.set: an existing key keeps its place, a new key goes last
MapSet(licenses, license) ==
  LET at == IndexOfId(licenses, license.spdxId, 1)
  IN  IF at = 0 THEN Append(licenses, license)
      ELSE [licenses EXCEPT ![at] = license]

RECURSIVE MergeFilesLastWins(_, _)
\* (mutant) every file's license is set, whatever the confidence on record
MergeFilesLastWins(licenseMap, licenseFiles) ==
  IF licenseFiles = << >> THEN licenseMap
  ELSE MergeFilesLastWins(MapSet(licenseMap, Head(licenseFiles).license),
                          Tail(licenseFiles))

RECURSIVE MergeFilesFirstWins(_, _)
\* (mutant) a file's license is set only when its spdxId is not on record yet
MergeFilesFirstWins(licenseMap, licenseFiles) ==
  IF licenseFiles = << >> THEN licenseMap
  ELSE IF IndexOfId(licenseMap, Head(licenseFiles).license.spdxId, 1) = 0
         THEN MergeFilesFirstWins(MapSet(licenseMap, Head(licenseFiles).license),
                                  Tail(licenseFiles))
         ELSE MergeFilesFirstWins(licenseMap, Tail(licenseFiles))

RECURSIVE MergeFiles(_, _)
\* the loop over licenseFiles of consolidateLicenses
MergeFiles(licenseMap, licenseFiles) ==
  IF licenseFiles = << >> THEN licenseMap
  ELSE LET fileInfo == Head(licenseFiles)
           at       == IndexOfId(licenseMap, fileInfo.license.spdxId, 1)
       IN  IF at = 0 \/ fileInfo.confidence > licenseMap[at].confidence
             THEN MergeFiles(MapSet(licenseMap, fileInfo.license), Tail(licenseFiles))
             ELSE MergeFiles(licenseMap, Tail(licenseFiles))

consolidateLicenses(declaredLicense, licenseFiles) ==
  MergeFiles(declaredLicense, licenseFiles)

RECURSIVE SortByConfidence(_)
\* Array.prototype.sort((a, b) => b.confidence - a.confidence): stable,
\* descending
SortByConfidence(licenses) ==
  IF licenses = << >> THEN << >>
  ELSE LET n      == Len(licenses)
           sorted == SortByConfidence(SubSeq(licenses, 1, n - 1))
           last   == licenses[n]
           ahead  == Cardinality({ k \in 1..(n - 1) :
                                   sorted[k].confidence >= last.confidence })
       IN  SubSeq(sorted, 1, ahead) \o << last >> \o SubSeq(sorted, ahead + 1, n - 1)

\* licenses.filter(l => l.category === PERMISSIVE)
Permissive(licenses) == SelectSeq(licenses, LAMBDA l : l.category = "permissive")

\* (mutant) the license of highest confidence, whatever was declared and
\* whatever is permissive
determinePrimaryLicenseHighest(licenses, declaredLicense) ==
  IF Len(licenses) = 0 THEN [primary |-> << >>, licenses |-> licenses]
  ELSE [primary  |-> << SortByConfidence(licenses)[1] >>,
        licenses |-> SortByConfidence(licenses)]

\* determinePrimaryLicense: the primary license, and the licenses array as
\* the call leaves it (licenses.sort of the last rule sorts it in place)
determinePrimaryLicense(licenses, declaredLicense) ==
  IF Len(licenses) = 0 THEN [primary |-> << >>, licenses |-> licenses]
  ELSE IF Len(licenses) = 1 THEN [primary |-> << licenses[1] >>, licenses |-> licenses]
  ELSE IF declaredLicense # << >>
          /\ IndexOfId(licenses, declaredLicense[1].spdxId, 1) # 0
    THEN [primary  |-> << licenses[IndexOfId(licenses, declaredLicense[1].spdxId, 1)] >>,
          licenses |-> licenses]
  ELSE IF Permissive(licenses) # << >>
    THEN [primary  |-> << SortByConfidence(Permissive(licenses))[1] >>,
          licenses |-> licenses]
  ELSE [primary  |-> << SortByConfidence(licenses)[1] >>,
        licenses |-> SortByConfidence(licenses)]

RECURSIVE AddObligations(_, _)
\* obligationMap after the inner loop over one license's obligation types
AddObligations(obligationMap, types) ==
  IF types = << >> THEN obligationMap
  ELSE IF \E k \in 1..Len(obligationMap) : obligationMap[k].type = Head(types)
         THEN AddObligations(obligationMap, Tail(types))
         ELSE AddObligations(Append(obligationMap, createObligation(Head(types))),
                             Tail(types))

RECURSIVE ObligationsFrom(_, _)
ObligationsFrom(obligationMap, licenses) ==
  IF licenses = << >> THEN obligationMap
  ELSE ObligationsFrom(AddObligations(obligationMap, Head(licenses).obligations),
                       Tail(licenses))

RECURSIVE calculateObligationsPerLicense(_)
\* (mutant) one obligation per license and type: no obligationMap.has check
calculateObligationsPerLicense(licenses) ==
  IF licenses = << >> THEN << >>
  ELSE [ n \in 1..Len(Head(licenses).obligations) |->
           createObligation(Head(licenses).obligations[n]) ]
       \o calculateObligationsPerLicense(Tail(licenses))

calculateObligations(licenses) == ObligationsFrom(<< >>, licenses)

\* the switch over license.category of LicenseDetector.assessLegalRisk
CategoryWeight(category) ==
  CASE category = "permissive"    -> 1
    [] category = "weak_copyleft" -> 3
    [] category = "copyleft"      -> 5
    [] category = "proprietary"   -> 10
    [] category = "custom"        -> 7
    [] category = "unknown"       -> 8
    [] category = "public_domain" -> 0

\* the switch over obligation.severity of LicenseDetector.assessLegalRisk
SeverityWeight(severity) ==
  CASE severity = "critical" -> 10
    [] severity = "high"     -> 5
    [] severity = "medium"   -> 2
    [] severity = "low"      -> 1

RECURSIVE CategoryScore(_)
\* for (const license of licenses) riskScore += weight of license.category
CategoryScore(licenses) ==
  IF licenses = << >> THEN 0
  ELSE CategoryWeight(Head(licenses).category) + CategoryScore(Tail(licenses))

RECURSIVE SeverityScore(_)
\* for (const obligation of obligations) riskScore += weight of its severity
SeverityScore(obligations) ==
  IF obligations = << >> THEN 0
  ELSE SeverityWeight(Head(obligations).severity) + SeverityScore(Tail(obligations))

LicenseRiskScore(licenses, obligations) ==
  CategoryScore(licenses) + SeverityScore(obligations)

\* (mutant) the breakpoints taken as exclusive lower bounds
LicenseRiskLevelStrict(riskScore) ==
  IF riskScore > 20 THEN "CRITICAL"
  ELSE IF riskScore > 15 THEN "VERY_HIGH"
  ELSE IF riskScore > 10 THEN "HIGH"
  ELSE IF riskScore > 5 THEN "MEDIUM"
  ELSE IF riskScore > 2 THEN "LOW"
  ELSE "VERY_LOW"

\* "Convert score to risk level" of LicenseDetector.assessLegalRisk
LicenseRiskLevel(riskScore) ==
  IF riskScore >= 20 THEN "CRITICAL"
  ELSE IF riskScore >= 15 THEN "VERY_HIGH"
  ELSE IF riskScore >= 10 THEN "HIGH"
  ELSE IF riskScore >= 5 THEN "MEDIUM"
  ELSE IF riskScore >= 2 THEN "LOW"
  ELSE "VERY_LOW"

\* LicenseDetector.assessLegalRisk(licenses, obligations)
detectorAssessLegalRisk(licenses, obligations) ==
  LicenseRiskLevel(LicenseRiskScore(licenses, obligations))

\* (mutant) one copyleft license next to any other license already conflicts
hasIncompatibleLicensesAnyCopyleft(licenses) ==
  LET hasProprietary == \E k \in 1..Len(licenses) : licenses[k].category = "proprietary"
      copyleftCount  == Cardinality({ k \in 1..Len(licenses) :
                                      licenses[k].category = "copyleft" })
  IN  \/ hasProprietary /\ Len(licenses) > 1
      \/ copyleftCount > 0 /\ Len(licenses) > 1

hasIncompatibleLicenses(licenses) ==
  LET hasProprietary == \E k \in 1..Len(licenses) : licenses[k].category = "proprietary"
      copyleftCount  == Cardinality({ k \in 1..Len(licenses) :
                                      licenses[k].category = "copyleft" })
  IN  \/ hasProprietary /\ Len(licenses) > 1
      \/ copyleftCount > 1

\* one deprecated_license issue per license carrying deprecated identifiers
DeprecatedIssues(licenses) ==
  [ k \in 1..Len(SelectSeq(licenses, LAMBDA l : l.deprecated)) |->
      [type     |-> "deprecated_license",
       severity |-> "warning",
       license  |-> SelectSeq(licenses, LAMBDA l : l.deprecated)[k].spdxId] ]

\* (mutant) a package without any license is only warned about
detectIssuesMissingAsWarning(pkg, licenses, declaredLicense) ==
  (IF Len(licenses) = 0
     THEN << [type |-> "missing_license", severity |-> "warning", license |-> ""] >>
     ELSE << >>)
  \o (IF Len(licenses) > 1 /\ hasIncompatibleLicenses(licenses)
        THEN << [type |-> "conflicting_licenses", severity |-> "critical", license |-> ""] >>
        ELSE << >>)
  \o DeprecatedIssues(licenses)
  \o (IF pkg.license # << >> /\ declaredLicense = << >>
        THEN << [type |-> "unrecognized_license", severity |-> "warning", license |-> ""] >>
        ELSE << >>)

detectIssues(pkg, licenses, declaredLicense) ==
  (IF Len(licenses) = 0
     THEN << [type |-> "missing_license", severity |-> "error", license |-> ""] >>
     ELSE << >>)
  \o (IF Len(licenses) > 1 /\ hasIncompatibleLicenses(licenses)
        THEN << [type |-> "conflicting_licenses", severity |-> "critical", license |-> ""] >>
        ELSE << >>)
  \o DeprecatedIssues(licenses)
  \o (IF pkg.license # << >> /\ declaredLicense = << >>
        THEN << [type |-> "unrecognized_license", severity |-> "warning", license |-> ""] >>
        ELSE << >>)

determineDetectionMethod(declaredLicense, licenseFiles) ==
  IF declaredLicense # << >> /\ Len(licenseFiles) > 0 THEN "declared"
  ELSE IF Len(licenseFiles) > 0 THEN "file_analysis"
  ELSE IF declaredLicense # << >> THEN "heuristic"
  ELSE "manual"

\* detectLicense(pkg): [ok |-> TRUE, value |-> the LicenseAnalysis], or
\* [ok |-> FALSE] when the call throws 'License detection failed for <name>'.
\* The lookups of detectDeclaredLicense are made outside any inner catch, so a
\* store fault there reaches the catch of detectLicense; a package without a
\* declared license makes no such lookup.
detectLicense(pkg, dbFault) ==
  IF dbFault /\ pkg.license # << >>
    THEN [ok |-> FALSE, package |-> pkg.name]
    ELSE LET declaredLicense == detectDeclaredLicense(pkg)
             licenseFiles    == analyzeLicenseFiles(pkg, dbFault)
             consolidated    == consolidateLicenses(declaredLicense, licenseFiles)
             chosen          == determinePrimaryLicense(consolidated, declaredLicense)
             licenses        == chosen.licenses
             obligations     == calculateObligations(licenses)
         IN  [ok    |-> TRUE,
              value |-> [package         |-> pkg.name,
                         licenses        |-> licenses,
                         primaryLicense  |-> chosen.primary,
                         detectionMethod |-> determineDetectionMethod(declaredLicense,
                                                                      licenseFiles),
                         licenseFiles    |-> licenseFiles,
                         obligations     |-> obligations,
                         riskLevel       |-> detectorAssessLegalRisk(licenses, obligations),
                         issues          |-> detectIssues(pkg, licenses, declaredLicense)]]

(***************************************************************************)
(* LicenseIntelligenceServiceImpl: pure parts.                             *)
(***************************************************************************)
\* const batchSize = 10
batchSize == 10

Min(a, b) == IF a < b THEN a ELSE b

\* (mutant) packages.slice(i): the batch is never cut to batchSize
SliceToEnd(i, n) == (i + 1)..n

\* (mutant) packages.slice(i, i + batchSize - 1): the last package of a full
\* batch is left out
SliceShort(i, n) == (i + 1)..Min(i + batchSize - 1, n)

\* packages.slice(i, i + batchSize): the 1-based indices of the batch that
\* starts at the 0-based loop index i, of n packages
BatchOf(i, n) == (i + 1)..Min(i + batchSize, n)

\* A PromiseSettledResult; Unset is the slot of a promise not settled yet.
Unset == [status |-> "unset", value |-> << >>]

SettledResult(outcome) ==
  IF outcome.ok THEN [status |-> "fulfilled", value |-> << outcome.value >>]
  ELSE [status |-> "rejected", value |-> << >>]

\* (mutant) the results are pushed as the promises settle, in completion order
RecordInCompletionOrder(results, slot, outcome) ==
  LET done == Cardinality({ k \in 1..Len(results) : results[k].status # "unset" })
  IN  [results EXCEPT ![done + 1] = SettledResult(outcome)]

\* Promise.allSettled keeps one slot per input promise: the promise at
\* position slot of the batch writes its result there whenever it settles
RecordSettled(results, slot, outcome) ==
  [results EXCEPT ![slot] = SettledResult(outcome)]

\* (mutant) await Promise.all(batchPromises): throws as soon as one rejects
PromiseAll(results) ==
  [ready |-> \/ \A k \in 1..Len(results) : results[k].status = "fulfilled"
             \/ \E k \in 1..Len(results) : results[k].status = "rejected",
   threw |-> \E k \in 1..Len(results) : results[k].status = "rejected"]

\* (mutant) await Promise.race(batchPromises): resumes at the first to settle
PromiseRace(results) ==
  [ready |-> \E k \in 1..Len(results) : results[k].status # "unset",
   threw |-> FALSE]

\* await Promise.allSettled(batchPromises): resumes once every promise of the
\* batch has settled, and never throws
PromiseAllSettled(results) ==
  [ready |-> \A k \in 1..Len(results) : results[k].status # "unset",
   threw |-> FALSE]

RECURSIVE FulfilledValues(_)
\* for (const result of batchResults)
\*   if (result.status === 'fulfilled') analyses.push(result.value)
FulfilledValues(results) ==
  IF results = << >> THEN << >>
  ELSE (IF Head(results).status = "fulfilled" THEN Head(results).value ELSE << >>)
       \o FulfilledValues(Tail(results))

Violation(analysis, license, text, severity) ==
  [package |-> analysis.package, license |-> license.spdxId,
   violation |-> text, severity |-> severity]

RECURSIVE FindCategoryRule(_, _)
\* policy.categoryRules.find(rule => rule.category === license.category)
FindCategoryRule(categoryRules, category) ==
  IF categoryRules = << >> THEN << >>
  ELSE IF Head(categoryRules).category = category THEN << Head(categoryRules) >>
  ELSE FindCategoryRule(Tail(categoryRules), category)

\* categoryRule?.action === 'prohibit'
CategoryProhibited(policy, license) ==
  LET categoryRule == FindCategoryRule(policy.categoryRules, license.category)
  IN  categoryRule # << >> /\ categoryRule[1].action = "prohibit"

\* (mutant) the four checks chained by else-if: the first rule that fires
\* suppresses the others
PairViolationsElseIf(analysis, license, policy) ==
  IF license.spdxId \in policy.prohibitedLicenses
    THEN << Violation(analysis, license, "License is explicitly prohibited", "critical") >>
  ELSE IF /\ license.spdxId \in policy.reviewRequiredLicenses
          /\ license.spdxId \notin policy.allowedLicenses
    THEN << Violation(analysis, license, "License requires legal review", "warning") >>
  ELSE IF CategoryProhibited(policy, license)
    THEN << Violation(analysis, license, "License category is prohibited", "error") >>
  ELSE IF analysis.riskLevel = "CRITICAL" /\ policy.maximumRiskLevel # "CRITICAL"
    THEN << Violation(analysis, license,
                      "License risk level exceeds policy tolerance", "critical") >>
  ELSE << >>

\* the body of the inner loop of validatePolicy: what one (analysis, license)
\* pair pushes onto violations
PairViolations(analysis, license, policy) ==
  (IF license.spdxId \in policy.prohibitedLicenses
     THEN << Violation(analysis, license, "License is explicitly prohibited", "critical") >>
     ELSE << >>)
  \o (IF /\ license.spdxId \in policy.reviewRequiredLicenses
         /\ license.spdxId \notin policy.allowedLicenses
        THEN << Violation(analysis, license, "License requires legal review", "warning") >>
        ELSE << >>)
  \o (IF CategoryProhibited(policy, license)
        THEN << Violation(analysis, license, "License category is prohibited", "error") >>
        ELSE << >>)
  \o (IF analysis.riskLevel = "CRITICAL" /\ policy.maximumRiskLevel # "CRITICAL"
        THEN << Violation(analysis, license,
                          "License risk level exceeds policy tolerance", "critical") >>
        ELSE << >>)

RECURSIVE AnalysisViolationsMissing(_, _, _)
\* (mutant) an analysis without a license is reported as a warning
AnalysisViolationsMissing(analysis, licenses, policy) ==
  IF analysis.licenses = << >>
    THEN << [package |-> analysis.package, license |-> "Unknown",
             violation |-> "No license detected", severity |-> "warning"] >>
  ELSE IF licenses = << >> THEN << >>
  ELSE PairViolations(analysis, Head(licenses), policy)
       \o AnalysisViolationsMissing(analysis, Tail(licenses), policy)

RECURSIVE AnalysisViolations(_, _, _)
\* for (const license of analysis.licenses)
AnalysisViolations(analysis, licenses, policy) ==
  IF licenses = << >> THEN << >>
  ELSE PairViolations(analysis, Head(licenses), policy)
       \o AnalysisViolations(analysis, Tail(licenses), policy)

RECURSIVE PolicyViolations(_, _)
\* for (const analysis of licenseAnalyses)
PolicyViolations(licenseAnalyses, policy) ==
  IF licenseAnalyses = << >> THEN << >>
  ELSE AnalysisViolations(Head(licenseAnalyses), Head(licenseAnalyses).licenses, policy)
       \o PolicyViolations(Tail(licenseAnalyses), policy)

\* what validatePolicy returns once analyzeLicenses has returned
PolicyResult(licenseAnalyses, policy) ==
  LET violations == PolicyViolations(licenseAnalyses, policy)
  IN  [kind       |-> "policy",
       compliant  |-> (Len(violations) = 0),
       violations |-> violations]

(***************************************************************************)
(* JavaScript numbers of calculateRiskScore: a finite integer, or NaN, or  *)
(* an infinity.                                                            *)
(***************************************************************************)
JsInt(v) == [kind |-> "int", val |-> v]
JsNaN == [kind |-> "NaN", val |-> 0]
JsInfinity == [kind |-> "Infinity", val |-> 0]
JsNegInfinity == [kind |-> "-Infinity", val |-> 0]

\* Math.round(a / n) for integers a and n >= 0: a / 0 is NaN for a = 0 and
\* an infinity otherwise; Math.round rounds half up
MathRoundOfQuotient(a, n) ==
  IF n = 0
    THEN (IF a = 0 THEN JsNaN ELSE IF a > 0 THEN JsInfinity ELSE JsNegInfinity)
    ELSE JsInt((2 * a + n) \div (2 * n))

\* Math.min(x, m): NaN when x is NaN
MathMin(x, m) ==
  CASE x.kind = "NaN"       -> JsNaN
    [] x.kind = "Infinity"  -> JsInt(m)
    [] x.kind = "-Infinity" -> JsNegInfinity
    [] x.kind = "int"       -> JsInt(Min(x.val, m))

\* x >= c: false for NaN
JsGeq(x, c) ==
  CASE x.kind = "NaN"       -> FALSE
    [] x.kind = "Infinity"  -> TRUE
    [] x.kind = "-Infinity" -> FALSE
    [] x.kind = "int"       -> x.val >= c

\* the switch over analysis.riskLevel of calculateRiskScore
RiskLevelWeight(riskLevel) ==
  CASE riskLevel = "CRITICAL"  -> 20
    [] riskLevel = "VERY_HIGH" -> 15
    [] riskLevel = "HIGH"      -> 10
    [] riskLevel = "MEDIUM"    -> 5
    [] riskLevel = "LOW"       -> 2
    [] riskLevel = "VERY_LOW"  -> 1

RECURSIVE SumRiskWeights(_)
SumRiskWeights(licenseAnalyses) ==
  IF licenseAnalyses = << >> THEN 0
  ELSE RiskLevelWeight(Head(licenseAnalyses).riskLevel)
       + SumRiskWeights(Tail(licenseAnalyses))

calculateRiskScore(licenseAnalyses, compatibilityReport) ==
  MathMin(MathRoundOfQuotient(SumRiskWeights(licenseAnalyses)
                                + compatibilityReport.riskScore,
                              Len(licenseAnalyses)),
          100)

determineOverallRisk(riskScore) ==
  IF JsGeq(riskScore, 80) THEN "CRITICAL"
  ELSE IF JsGeq(riskScore, 60) THEN "VERY_HIGH"
  ELSE IF JsGeq(riskScore, 40) THEN "HIGH"
  ELSE IF JsGeq(riskScore, 20) THEN "MEDIUM"
  ELSE IF JsGeq(riskScore, 10) THEN "LOW"
  ELSE "VERY_LOW"

\* licenseAnalyses.filter(a => a.licenses.some(l => l.category === 'copyleft')).length
CopyleftCount(licenseAnalyses) ==
  Cardinality({ a \in 1..Len(licenseAnalyses) :
                  \E l \in 1..Len(licenseAnalyses[a].licenses) :
                    licenseAnalyses[a].licenses[l].category = "copyleft" })

\* licenseAnalyses.filter(a => a.licenses.length === 0).length
UnknownCount(licenseAnalyses) ==
  Cardinality({ a \in 1..Len(licenseAnalyses) : Len(licenseAnalyses[a].licenses) = 0 })

RiskFactor(category, impact, riskScore) ==
  [category |-> category, impact |-> impact, riskScore |-> riskScore]

\* (mutant) the license_compatibility factor is pushed with impact high, as the
\* two other factors are
identifyRiskFactorsCompatHigh(licenseAnalyses, compatibilityReport) ==
  (IF compatibilityReport.conflicts > 0
     THEN << RiskFactor("license_compatibility", "high",
                        compatibilityReport.conflicts * 20) >>
     ELSE << >>)
  \o (IF CopyleftCount(licenseAnalyses) > 0
        THEN << RiskFactor("compliance", "high", CopyleftCount(licenseAnalyses) * 10) >>
        ELSE << >>)
  \o (IF UnknownCount(licenseAnalyses) > 0
        THEN << RiskFactor("governance", "high", UnknownCount(licenseAnalyses) * 15) >>
        ELSE << >>)

\* compatibilityReport.conflicts is the number of conflicts of the report
identifyRiskFactors(licenseAnalyses, compatibilityReport) ==
  (IF compatibilityReport.conflicts > 0
     THEN << RiskFactor("license_compatibility", "critical",
                        compatibilityReport.conflicts * 20) >>
     ELSE << >>)
  \o (IF CopyleftCount(licenseAnalyses) > 0
        THEN << RiskFactor("compliance", "high", CopyleftCount(licenseAnalyses) * 10) >>
        ELSE << >>)
  \o (IF UnknownCount(licenseAnalyses) > 0
        THEN << RiskFactor("governance", "high", UnknownCount(licenseAnalyses) * 15) >>
        ELSE << >>)

\* spdxId.includes('AGPL'), over the identifiers of the store
IncludesAGPL(spdxId) == spdxId \in {"AGPL-3.0-only"}

\* (mutant) one entry is pushed per license whose spdxId contains 'AGPL'
assessJurisdictionRisksPerLicense(licenseAnalyses) ==
  IF licenseAnalyses = << >> THEN << >>
  ELSE [ n \in 1..Cardinality({ t \in UNION { { << a, l >> :
                                                  l \in 1..Len(licenseAnalyses[a].licenses) } :
                                                a \in 1..Len(licenseAnalyses) } :
                                 IncludesAGPL(licenseAnalyses[t[1]].licenses[t[2]].spdxId) })
         |-> [jurisdiction |-> "Global", riskLevel |-> "HIGH"] ]

assessJurisdictionRisks(licenseAnalyses) ==
  LET hasAGPL == \E a \in 1..Len(licenseAnalyses) :
                   \E l \in 1..Len(licenseAnalyses[a].licenses) :
                     IncludesAGPL(licenseAnalyses[a].licenses[l].spdxId)
  IN  IF hasAGPL THEN << [jurisdiction |-> "Global", riskLevel |-> "HIGH"] >>
      ELSE << >>

\* (mutant) each rule assigns its own urgency, the last one that fires wins
assessLegalReviewNeedsLastWins(overallRisk, riskFactors) ==
  LET critical == \E f \in 1..Len(riskFactors) : riskFactors[f].impact = "critical"
      compat   == \E f \in 1..Len(riskFactors) :
                    riskFactors[f].category = "license_compatibility"
      rule1    == overallRisk = "CRITICAL" \/ critical
      rule3    == overallRisk \in {"HIGH", "VERY_HIGH"}
      scope    == (IF rule1 THEN << "Critical risk mitigation" >> ELSE << >>)
                  \o (IF compat THEN << "License compatibility analysis" >> ELSE << >>)
                  \o (IF rule3 THEN << "General license compliance review" >> ELSE << >>)
  IN  [required       |-> rule1 \/ compat \/ rule3,
       urgency        |-> IF rule3 THEN "medium" ELSE IF compat THEN "high"
                          ELSE IF rule1 THEN "urgent" ELSE "low",
       scope          |-> scope,
       estimatedHours |-> Len(scope) * 4]

\* the three if statements of assessLegalReviewNeeds, in order: u1, u2, u3 are
\* urgency after each
assessLegalReviewNeeds(overallRisk, riskFactors) ==
  LET criticalFactors      == SelectSeq(riskFactors, LAMBDA f : f.impact = "critical")
      compatibilityFactors == SelectSeq(riskFactors,
                                        LAMBDA f : f.category = "license_compatibility")
      rule1 == overallRisk = "CRITICAL" \/ Len(criticalFactors) > 0
      rule2 == Len(compatibilityFactors) > 0
      rule3 == overallRisk = "HIGH" \/ overallRisk = "VERY_HIGH"
      u1    == IF rule1 THEN "urgent" ELSE "low"
      u2    == IF rule2 THEN (IF u1 = "urgent" THEN "urgent" ELSE "high") ELSE u1
      u3    == IF rule3
                 THEN (IF u2 = "urgent" THEN "urgent"
                       ELSE IF u2 = "high" THEN "high" ELSE "medium")
                 ELSE u2
      scope == (IF rule1 THEN << "Critical risk mitigation" >> ELSE << >>)
               \o (IF rule2 THEN << "License compatibility analysis" >> ELSE << >>)
               \o (IF rule3 THEN << "General license compliance review" >> ELSE << >>)
  IN  [required       |-> rule1 \/ rule2 \/ rule3,
       urgency        |-> u3,
       scope          |-> scope,
       estimatedHours |-> Len(scope) * 4]

\* the LegalRiskReport that assessLegalRisk assembles (the patent risks and
\* the compliance requirements, which nothing else reads, are left out)
RiskResult(licenseAnalyses, compatibilityReport) ==
  LET riskScore   == calculateRiskScore(licenseAnalyses, compatibilityReport)
      overallRisk == determineOverallRisk(riskScore)
      riskFactors == identifyRiskFactors(licenseAnalyses, compatibilityReport)
  IN  [kind              |-> "risk",
       riskScore         |-> riskScore,
       overallRisk       |-> overallRisk,
       riskFactors       |-> riskFactors,
       jurisdictionRisks |-> assessJurisdictionRisks(licenseAnalyses),
       legalReview       |-> assessLegalReviewNeeds(overallRisk, riskFactors)]

(***************************************************************************)
(* Compliance documents.  A document is the string one generator builds;   *)
(* it is kept as [kind, format, groups, rows]: the format whose markup it   *)
(* is written in, the "LICENSE: id" sections with the packages listed under *)
(* each (grouped layout), and the per-package lines with their license ids  *)
(* (flat layout).  Custom header and footer, license texts, copyright       *)
(* notices and the generation time are left out.                            *)
(***************************************************************************)
RECURSIVE IndexOfGroup(_, _, _)
\* position of the key licenseId in the groups Map, 0 when absent
IndexOfGroup(groups, licenseId, n) ==
  IF n > Len(groups) THEN 0
  ELSE IF groups[n].licenseId = licenseId THEN n
  ELSE IndexOfGroup(groups, licenseId, n + 1)

\* analysis.licenses[0]?.spdxId || 'Unknown'
GroupKey(analysis) ==
  IF Len(analysis.licenses) > 0 THEN analysis.licenses[1].spdxId ELSE "Unknown"

RECURSIVE GroupInto(_, _)
\* the loop of groupAnalysesByLicense over licenseAnalyses
GroupInto(groups, licenseAnalyses) ==
  IF licenseAnalyses = << >> THEN groups
  ELSE LET analysis == Head(licenseAnalyses)
           key      == GroupKey(analysis)
           at       == IndexOfGroup(groups, key, 1)
           made     == IF at = 0
                         THEN Append(groups, [licenseId |-> key, packages |-> << >>])
                         ELSE groups
           to       == IF at = 0 THEN Len(made) ELSE at
       IN  GroupInto([made EXCEPT ![to].packages = Append(@, analysis.package)],
                     Tail(licenseAnalyses))

groupAnalysesByLicense(licenseAnalyses) == GroupInto(<< >>, licenseAnalyses)

\* analysis.licenses.map(l => l.spdxId)
SpdxIds(licenses) == [l \in 1..Len(licenses) |-> licenses[l].spdxId]

\* the per-package lines of the flat layout
FlatRows(licenseAnalyses) ==
  [a \in 1..Len(licenseAnalyses) |->
     [package  |-> licenseAnalyses[a].package,
      licenses |-> SpdxIds(licenseAnalyses[a].licenses)]]

\* generateTextDocument, generateHtmlDocument and generateMarkdownDocument
\* share one shape: the grouped sections under groupByLicense, else the lines
MarkupDocument(format, licenseAnalyses, options) ==
  IF options.groupByLicense
    THEN [kind |-> "document", format |-> format,
          groups |-> groupAnalysesByLicense(licenseAnalyses), rows |-> << >>]
    ELSE [kind |-> "document", format |-> format,
          groups |-> << >>, rows |-> FlatRows(licenseAnalyses)]

generateTextDocument(licenseAnalyses, options) ==
  MarkupDocument("text", licenseAnalyses, options)

generateHtmlDocument(licenseAnalyses, options) ==
  MarkupDocument("html", licenseAnalyses, options)

generateMarkdownDocument(licenseAnalyses, options) ==
  MarkupDocument("markdown", licenseAnalyses, options)

\* generateJsonDocument does not read options: the packages array only
generateJsonDocument(licenseAnalyses, options) ==
  [kind |-> "document", format |-> "json",
   groups |-> << >>, rows |-> FlatRows(licenseAnalyses)]

\* (mutant) a format the switch does not know is rendered as text
generateComplianceDocumentFallback(licenseAnalyses, options) ==
  CASE options.format = "html"     -> [ok |-> TRUE, document |-> generateHtmlDocument(licenseAnalyses, options)]
    [] options.format = "markdown" -> [ok |-> TRUE, document |-> generateMarkdownDocument(licenseAnalyses, options)]
    [] options.format = "json"     -> [ok |-> TRUE, document |-> generateJsonDocument(licenseAnalyses, options)]
    [] OTHER                       -> [ok |-> TRUE, document |-> generateTextDocument(licenseAnalyses, options)]

\* what generateComplianceDocument does once analyzeLicenses has returned: the
\* switch over options.format; ok is FALSE when it throws 'Unsupported
\* document format', document then being the empty string it had
generateComplianceDocument(licenseAnalyses, options) ==
  CASE options.format = "text"     -> [ok |-> TRUE, document |-> generateTextDocument(licenseAnalyses, options)]
    [] options.format = "html"     -> [ok |-> TRUE, document |-> generateHtmlDocument(licenseAnalyses, options)]
    [] options.format = "markdown" -> [ok |-> TRUE, document |-> generateMarkdownDocument(licenseAnalyses, options)]
    [] options.format = "json"     -> [ok |-> TRUE, document |-> generateJsonDocument(licenseAnalyses, options)]
    [] OTHER                       -> [ok |-> FALSE,
                                       document |-> [kind |-> "document", format |-> "none",
                                                     groups |-> << >>, rows |-> << >>]]

(***************************************************************************)
(* Inputs: package shapes (declared license, filesystem root, files) and   *)
(* policies the calls are made with.                                       *)
(***************************************************************************)
NoFiles ==
  [f \in 1..Len(LICENSE_FILE_PATTERNS) |->
     [exists |-> FALSE, unreadable |-> FALSE, matches |-> {}]]

\* a file under the candidate name number f whose text matches the patterns ms
WithFile(files, f, ms) ==
  [files EXCEPT ![f] = [exists |-> TRUE, unreadable |-> FALSE, matches |-> ms]]

\* a file under the candidate name number f that exists and cannot be read
WithUnreadableFile(files, f, ms) ==
  [files EXCEPT ![f] = [exists |-> TRUE, unreadable |-> TRUE, matches |-> ms]]

\* a declared license that is one SPDX identifier
Declared(text) == << [text |-> text, parts |-> << text >>] >>

\* a declared SPDX expression and the tokens its split on AND/OR yields
DeclaredExpr(text, parts) == << [text |-> text, parts |-> parts] >>

Shape(license, path, files) == [license |-> license, path |-> path, files |-> files]

ShapeMIT == Shape(Declared("MIT"), FALSE, NoFiles)
ShapeGPL == Shape(Declared("GPL-3.0-only"), FALSE, NoFiles)
ShapeLGPL == Shape(Declared("LGPL-3.0-only"), FALSE, NoFiles)
ShapeCC0 == Shape(Declared("CC0-1.0"), FALSE, NoFiles)
ShapeNone == Shape(<< >>, FALSE, NoFiles)
ShapeAGPL == Shape(Declared("AGPL-3.0-only"), FALSE, NoFiles)
\* declares MIT, and its LICENSE file reads as GPL-3.0
ShapeMITFileGPL == Shape(Declared("MIT"), TRUE, WithFile(NoFiles, 1, {3}))

\* no declared license, no file under any candidate name
ShapePathNoFiles == Shape(<< >>, TRUE, NoFiles)
\* no declared license, a LICENSE file whose text matches no pattern
ShapeFileNoMatch == Shape(<< >>, TRUE, WithFile(NoFiles, 1, {}))
\* no declared license, a LICENSE file (MIT text) that cannot be read
ShapeFileUnreadable == Shape(<< >>, TRUE, WithUnreadableFile(NoFiles, 1, {1}))
\* no declared license, a LICENSE file that reads as MIT
ShapeFileMIT == Shape(<< >>, TRUE, WithFile(NoFiles, 1, {1}))
\* a declared identifier the store does not know
ShapeUnknown == Shape(Declared("Custom-1.0"), FALSE, NoFiles)
\* declares MIT, LICENSE reads as MIT (and as ISC, a later pattern)
ShapeMITFileMIT == Shape(Declared("MIT"), TRUE, WithFile(NoFiles, 1, {1, 10}))
\* declares MIT, LICENSE reads as Apache-2.0
ShapeMITFileApache == Shape(Declared("MIT"), TRUE, WithFile(NoFiles, 1, {2}))
\* declares "MIT OR Apache-2.0" (MIT resolves, at 0.8), LICENSE reads as MIT,
\* COPYING as MIT too
ShapeExprFileMIT ==
  Shape(DeclaredExpr("MIT OR Apache-2.0", << "MIT", "Apache-2.0" >>), TRUE,
        WithFile(WithFile(NoFiles, 1, {1}), 7, {1}))
\* declares GPL-3.0-only, LICENSE reads as MIT
ShapeGPLFileMIT == Shape(Declared("GPL-3.0-only"), TRUE, WithFile(NoFiles, 1, {1}))
\* nothing declared, LICENSE reads as GPL-3.0, COPYING as MIT
ShapeFilesGPLMIT ==
  Shape(<< >>, TRUE, WithFile(WithFile(NoFiles, 1, {3}), 7, {1}))
\* nothing declared, LICENSE reads as GPL-3.0, LICENCE as ISC, COPYING as MIT
ShapeFilesGPLISCMIT ==
  Shape(<< >>, TRUE, WithFile(WithFile(WithFile(NoFiles, 1, {3}), 4, {10}), 7, {1}))
\* nothing declared, LICENSE reads as CC0-1.0, COPYING as LGPL-3.0
ShapeFilesCC0LGPL ==
  Shape(<< >>, TRUE, WithFile(WithFile(NoFiles, 1, {11}), 7, {5}))
\* declares AGPL-3.0-only, LICENSE reads as GPL-3.0
ShapeAGPLFileGPL == Shape(Declared("AGPL-3.0-only"), TRUE, WithFile(NoFiles, 1, {3}))
\* declares a proprietary license, LICENSE reads as MIT
ShapeProprietaryFileMIT ==
  Shape(Declared("LicenseRef-Proprietary"), TRUE, WithFile(NoFiles, 1, {1}))
\* declares an unknown identifier, LICENSE reads as GPL-3.0, COPYING as GPL-2.0
ShapeUnknownFilesGPLs ==
  Shape(Declared("Custom-1.0"), TRUE, WithFile(WithFile(NoFiles, 1, {3}), 7, {4}))

DetectShapes ==
  { ShapeNone, ShapeMIT, ShapePathNoFiles, ShapeFileNoMatch, ShapeFileUnreadable,
    ShapeFileMIT, ShapeUnknown, ShapeMITFileMIT, ShapeMITFileApache, ShapeMITFileGPL,
    ShapeExprFileMIT, ShapeGPLFileMIT, ShapeFilesGPLMIT, ShapeFilesGPLISCMIT,
    ShapeFilesCC0LGPL, ShapeAGPLFileGPL, ShapeProprietaryFileMIT, ShapeUnknownFilesGPLs }

Pkg(name, shape) ==
  [name |-> name, license |-> shape.license, path |-> shape.path, files |-> shape.files]

\* the package lists of length 0..max whose packages have the given shapes;
\* the package at position k is named k
PackageLists(shapes, max) ==
  UNION { { [k \in 1..n |-> Pkg(k, choice[k])] : choice \in [1..n -> shapes] } :
          n \in 0..max }

NoPolicy ==
  [prohibitedLicenses |-> {}, reviewRequiredLicenses |-> {}, allowedLicenses |-> {},
   categoryRules |-> << >>, maximumRiskLevel |-> "CRITICAL"]

\* ComplianceDocumentOptions: the format asked for and groupByLicense
NoOptions == [format |-> "text", groupByLicense |-> FALSE]

\* the four formats of the switch, and two strings that are none of them
DocumentOptions ==
  { [format |-> f, groupByLicense |-> g] :
    f \in {"text", "html", "markdown", "json", "pdf", "TEXT"}, g \in BOOLEAN }

Rule(category, action) == [category |-> category, action |-> action]

Policies ==
  { [prohibitedLicenses     |-> p,
     reviewRequiredLicenses |-> r,
     allowedLicenses        |-> a,
     categoryRules          |-> c,
     maximumRiskLevel       |-> m] :
    p \in { {}, {"GPL-3.0-only"} },
    r \in { {}, {"GPL-3.0-only", "MIT"} },
    a \in { {}, {"MIT"} },
    c \in { << >>,
            << Rule("copyleft", "prohibit") >>,
            << Rule("copyleft", "allow"), Rule("copyleft", "prohibit") >>,
            << Rule("permissive", "review"), Rule("copyleft", "prohibit") >> },
    m \in { "HIGH", "CRITICAL" } }

(***************************************************************************)
(* The Compatibility Engine (compatibility-engine, an external             *)
(* collaborator): its report, of which the service reads the conflicts and *)
(* summary.riskScore.                                                      *)
(***************************************************************************)
NoReport == [conflicts |-> 0, riskScore |-> 0]

\* the faults the engine may raise, and the absence of a fault
EngineFaults == {"EngineError", "RangeError"}
NoFault == "none"

\* the compatibility levels a CompatibilityAnalysis of the engine may carry
CompatibilityAnalyses ==
  { [compatibility |-> c] : c \in {"compatible", "conditional", "incompatible"} }

CompatibilityReports ==
  { [conflicts |-> c, riskScore |-> r] : c \in 0..MaxConflicts, r \in 0..MaxCompatRisk }

(***************************************************************************)
(* The service as a state machine.  One call of op runs on the event loop: *)
(* the code between two awaits is one step, and between steps the pending  *)
(* detections settle in any order.                                         *)
(***************************************************************************)
VARIABLES
  op,            \* the operation called: analyzeLicenses, validatePolicy,
                 \* assessLegalRisk, generateComplianceDocument,
                 \* generateCompatibilityReport, checkCompatibility
  packages,      \* its packages argument
  policy,        \* its policy argument (validatePolicy)
  options,       \* its options argument (generateComplianceDocument)
  pc,            \* idle, await (at the allSettled of a batch), engine, done, threw
  i,             \* the loop index of analyzeLicenses
  promises,      \* per package: unstarted, pending, fulfilled, rejected
  batchResults,  \* the result array of the current batch's Promise.allSettled
  analyses,      \* the analyses array of analyzeLicenses
  dbFault,       \* per package: whether the store raises during its detection
                 \* (unknown until the detection first settles, then fixed)
  report,        \* the report the Compatibility Engine returned
  engineFault,   \* the fault the Compatibility Engine raised, if any
  engineCalls,   \* how many times the call invoked the Compatibility Engine
  started,       \* per package: how many times its detection was started
  ret,           \* what the call returned
  prev,          \* what the previous call on the same input returned
  calls,         \* the number of completed earlier calls
  score,         \* the score handed to the score-to-level mappings
  mapped         \* the levels the two mappings returned for score

vars == << op, packages, policy, options, pc, i, promises, batchResults, analyses,
           dbFault, report, engineFault, engineCalls, started, ret, prev, calls,
           score, mapped >>

input == << op, packages, policy, options >>
levels == << score, mapped >>
engine == << report, engineFault, engineCalls >>

NoRet == [kind |-> "none"]
Thrown == [kind |-> "error"]

\* (mutant) catch (error) { throw new Error(...) }: another fault is thrown
RethrowWrapped(error) == [kind |-> "error", fault |-> "Error"]

\* catch (error) { logger.error(...); throw error }: the call rejects with the
\* fault it caught
Rethrow(error) == [kind |-> "error", fault |-> error]
NotMapped == [license |-> "none", project |-> "none"]

\* the state in which op is about to be called with pkgs and pol
CallState(o, pkgs, pol) ==
  /\ op = o
  /\ packages = pkgs
  /\ policy = pol
  /\ pc = "idle"
  /\ i = 0
  /\ promises = [k \in 1..Len(pkgs) |-> "unstarted"]
  /\ batchResults = << >>
  /\ analyses = << >>
  /\ dbFault = [k \in 1..Len(pkgs) |-> "unknown"]
  /\ report = NoReport
  /\ engineFault = NoFault
  /\ engineCalls = 0
  /\ started = [k \in 1..Len(pkgs) |-> 0]
  /\ ret = NoRet
  /\ prev = NoRet
  /\ calls = 0
  /\ mapped = NotMapped

\* batch.map(pkg => this.analyzeLicense(pkg, options)) for the batch at from,
\* up to the await of Promise.allSettled
StartBatch(from) ==
  /\ promises' = [k \in 1..Len(packages) |->
                    IF k \in BatchOf(from, Len(packages)) THEN "pending" ELSE promises[k]]
  /\ batchResults' = [slot \in 1..Cardinality(BatchOf(from, Len(packages))) |-> Unset]
  /\ started' = [k \in 1..Len(packages) |->
                   IF k \in BatchOf(from, Len(packages)) THEN started[k] + 1
                   ELSE started[k]]
  /\ pc' = "await"

\* analyzeLicenses returns an to its caller, which runs on to its own return
\* or to its next await: assessLegalRisk and generateCompatibilityReport invoke
\* the engine's generateCompatibilityReport and await it
Return(an) ==
  CASE op = "analyzeLicenses" -> /\ pc' = "done"
                                 /\ ret' = [kind |-> "analyses", value |-> an]
                                 /\ engineCalls' = engineCalls
    [] op = "validatePolicy"  -> /\ pc' = "done"
                                 /\ ret' = PolicyResult(an, policy)
                                 /\ engineCalls' = engineCalls
    [] op \in {"assessLegalRisk", "generateCompatibilityReport"} ->
                                 /\ pc' = "engine"
                                 /\ ret' = ret
                                 /\ engineCalls' = engineCalls + 1
    [] op = "generateComplianceDocument" ->
         /\ engineCalls' = engineCalls
         /\ IF generateComplianceDocument(an, options).ok
              THEN /\ pc' = "done"
                   /\ ret' = generateComplianceDocument(an, options).document
              ELSE /\ pc' = "threw"
                   /\ ret' = Thrown

\* The call is made: analyzeLicenses runs to the first allSettled, or to the
\* end when there is no package.
Call ==
  /\ pc = "idle"
  /\ op # "checkCompatibility"
  /\ i' = 0
  /\ analyses' = << >>
  /\ IF 0 < Len(packages)
       THEN StartBatch(0) /\ ret' = ret /\ engineCalls' = engineCalls
       ELSE Return(<< >>) /\ UNCHANGED << promises, batchResults, started >>
  /\ UNCHANGED << input, dbFault, report, engineFault, prev, calls, levels >>

\* checkCompatibility(license1, license2) is called: the two licenses are
\* handed to the engine's checkCompatibility, which is awaited.
CallCheckCompatibility ==
  /\ pc = "idle"
  /\ op = "checkCompatibility"
  /\ pc' = "engine"
  /\ engineCalls' = engineCalls + 1
  /\ UNCHANGED << input, i, promises, batchResults, analyses, dbFault, report,
                  engineFault, started, ret, prev, calls, levels >>

\* The detection of package k settles: detectLicense returns or throws, and
\* analyzeLicense passes either on.
Settle(k) ==
  /\ pc = "await"
  /\ promises[k] = "pending"
  /\ \E f \in (IF dbFault[k] = "unknown" THEN {"yes", "no"} ELSE {dbFault[k]}) :
       LET outcome == detectLicense(packages[k], f = "yes")
       IN  /\ dbFault' = [dbFault EXCEPT ![k] = f]
           /\ promises' = [promises EXCEPT
                             ![k] = IF outcome.ok THEN "fulfilled" ELSE "rejected"]
           /\ batchResults' = RecordSettled(batchResults, k - i, outcome)
  /\ UNCHANGED << input, pc, i, analyses, engine, started, ret, prev, calls, levels >>

\* The allSettled of the batch resolves: the fulfilled results are pushed, and
\* the loop starts the next batch or analyzeLicenses returns.
BatchJoin ==
  /\ pc = "await"
  /\ PromiseAllSettled(batchResults).ready
  /\ IF PromiseAllSettled(batchResults).threw
       THEN /\ pc' = "threw"
            /\ ret' = Thrown
            /\ UNCHANGED << i, analyses, promises, batchResults, started, engineCalls >>
       ELSE LET an == analyses \o FulfilledValues(batchResults)
            IN  /\ analyses' = an
                /\ i' = i + batchSize
                /\ IF i + batchSize < Len(packages)
                     THEN StartBatch(i + batchSize) /\ ret' = ret
                          /\ engineCalls' = engineCalls
                     ELSE Return(an) /\ UNCHANGED << promises, batchResults, started >>
  /\ UNCHANGED << input, dbFault, report, engineFault, prev, calls, levels >>

\* The Compatibility Engine returns its report: assessLegalRisk runs to its
\* return, generateCompatibilityReport returns the report.
EngineReturn ==
  /\ pc = "engine"
  /\ op \in {"assessLegalRisk", "generateCompatibilityReport"}
  /\ \E r \in CompatibilityReports :
       /\ report' = r
       /\ ret' = IF op = "assessLegalRisk" THEN RiskResult(analyses, r)
                 ELSE [kind |-> "report", value |-> r]
  /\ pc' = "done"
  /\ UNCHANGED << input, i, promises, batchResults, analyses, dbFault, engineFault,
                  engineCalls, started, prev, calls, levels >>

\* The engine's checkCompatibility returns its analysis, which
\* checkCompatibility returns.
EngineReturnAnalysis ==
  /\ pc = "engine"
  /\ op = "checkCompatibility"
  /\ \E c \in CompatibilityAnalyses : ret' = [kind |-> "compatibility", value |-> c]
  /\ pc' = "done"
  /\ UNCHANGED << input, i, promises, batchResults, analyses, dbFault, engine,
                  started, prev, calls, levels >>

\* The Compatibility Engine raises: the catch of the operation rethrows.
EngineFault ==
  /\ pc = "engine"
  /\ pc' = "threw"
  /\ \E e \in EngineFaults :
       /\ engineFault' = e
       /\ ret' = Rethrow(e)
  /\ UNCHANGED << input, i, promises, batchResults, analyses, dbFault, report,
                  engineCalls, started, prev, calls, levels >>

\* The same call is made again on the same input, the filesystem and the
\* store being as they were.
CallAgain ==
  /\ pc = "done"
  /\ calls + 1 < MaxCalls
  /\ calls' = calls + 1
  /\ prev' = ret
  /\ ret' = NoRet
  /\ pc' = "idle"
  /\ i' = 0
  /\ promises' = [k \in 1..Len(packages) |-> "unstarted"]
  /\ batchResults' = << >>
  /\ analyses' = << >>
  /\ started' = [k \in 1..Len(packages) |-> 0]
  /\ UNCHANGED << input, dbFault, engine, levels >>

\* The two score-to-level mappings applied to score.
MapLicenseLevel ==
  /\ mapped.license = "none"
  /\ mapped' = [mapped EXCEPT !.license = LicenseRiskLevel(score)]
  /\ UNCHANGED << input, pc, i, promises, batchResults, analyses, dbFault, engine,
                  started, ret, prev, calls, score >>

MapProjectLevel ==
  /\ mapped.project = "none"
  /\ mapped' = [mapped EXCEPT !.project = determineOverallRisk(JsInt(score))]
  /\ UNCHANGED << input, pc, i, promises, batchResults, analyses, dbFault, engine,
                  started, ret, prev, calls, score >>

(***************************************************************************)
(* Specifications.                                                         *)
(***************************************************************************)
\* analyzeLicenses on up to MaxPkgs packages
Init == \E pkgs \in PackageLists({ShapeMIT}, MaxPkgs) :
          CallState("analyzeLicenses", pkgs, NoPolicy) /\ options = NoOptions /\ score = 0

Next == Call \/ (\E k \in 1..Len(packages) : Settle(k)) \/ BatchJoin

Spec == Init /\ [][Next]_vars

\* analyzeLicenses when the event loop runs every continuation that is ready
\* and every started detection eventually settles
Fairness ==
  /\ WF_vars(Call)
  /\ WF_vars(BatchJoin)
  /\ \A k \in 1..MaxLivePkgs : WF_vars(k <= Len(packages) /\ Settle(k))

\* no package, a few packages, and a list that needs a second batch
InitLive ==
  \E pkgs \in { l \in PackageLists({ShapeMIT}, MaxLivePkgs) :
                   Len(l) <= MaxShortPkgs \/ Len(l) = MaxLivePkgs } :
    CallState("analyzeLicenses", pkgs, NoPolicy) /\ options = NoOptions /\ score = 0

\* the same steps without the assumption: a detection may stay pending for ever
SpecUnfair == InitLive /\ [][Next]_vars

SpecLive == InitLive /\ [][Next]_vars /\ Fairness

\* validatePolicy, called MaxCalls times on the same packages and policy
InitPolicy ==
  \E pkgs \in PackageLists({ShapeMIT, ShapeGPL, ShapeNone, ShapeMITFileGPL}, MaxPolicyPkgs),
     pol \in Policies :
    CallState("validatePolicy", pkgs, pol) /\ options = NoOptions /\ score = 0

NextPolicy ==
  Call \/ (\E k \in 1..Len(packages) : Settle(k)) \/ BatchJoin \/ CallAgain

SpecPolicy == InitPolicy /\ [][NextPolicy]_vars

\* assessLegalRisk
InitRisk ==
  \E pkgs \in PackageLists({ShapeMIT, ShapeGPL, ShapeLGPL, ShapeCC0, ShapeAGPL, ShapeNone},
                            MaxRiskPkgs) :
    CallState("assessLegalRisk", pkgs, NoPolicy) /\ options = NoOptions /\ score = 0

NextRisk ==
  Call \/ (\E k \in 1..Len(packages) : Settle(k)) \/ BatchJoin
    \/ EngineReturn \/ EngineFault

SpecRisk == InitRisk /\ [][NextRisk]_vars

\* the three operations that go on to the Compatibility Engine
InitEngine ==
  \/ \E o \in {"assessLegalRisk", "generateCompatibilityReport"},
        pkgs \in PackageLists({ShapeMIT, ShapeGPL}, MaxEnginePkgs) :
       CallState(o, pkgs, NoPolicy) /\ options = NoOptions /\ score = 0
  \/ CallState("checkCompatibility", << >>, NoPolicy) /\ options = NoOptions /\ score = 0

NextEngine ==
  Call \/ CallCheckCompatibility \/ (\E k \in 1..Len(packages) : Settle(k)) \/ BatchJoin
    \/ EngineReturn \/ EngineReturnAnalysis \/ EngineFault

SpecEngine == InitEngine /\ [][NextEngine]_vars

\* analyzeLicenses on packages of every shape: the detector's analyses
InitDetect ==
  \E pkgs \in PackageLists(DetectShapes, MaxDetectPkgs) :
    CallState("analyzeLicenses", pkgs, NoPolicy) /\ options = NoOptions /\ score = 0

NextDetect == Call \/ (\E k \in 1..Len(packages) : Settle(k)) \/ BatchJoin

SpecDetect == InitDetect /\ [][NextDetect]_vars

\* generateComplianceDocument, in every format and layout
InitDoc ==
  \E pkgs \in PackageLists({ShapeMIT, ShapeNone, ShapeMITFileGPL, ShapeFilesGPLMIT,
                             ShapeFilesCC0LGPL}, MaxDocPkgs),
     opt \in DocumentOptions :
    CallState("generateComplianceDocument", pkgs, NoPolicy) /\ options = opt /\ score = 0

NextDoc == Call \/ (\E k \in 1..Len(packages) : Settle(k)) \/ BatchJoin

SpecDoc == InitDoc /\ [][NextDoc]_vars

\* the score-to-level mappings on the scores 0..MaxScore
InitLevels ==
  /\ CallState("none", << >>, NoPolicy)
  /\ options = NoOptions
  /\ score \in 0..MaxScore

NextLevels == MapLicenseLevel \/ MapProjectLevel

SpecLevels == InitLevels /\ [][NextLevels]_vars

(***************************************************************************)
(* Claims about analyzeLicenses (Spec).                                    *)
(***************************************************************************)
Settled(k) == promises[k] \in {"fulfilled", "rejected"}
Succeeded == { k \in 1..Len(packages) : promises[k] = "fulfilled" }
Failed == { k \in 1..Len(packages) : promises[k] = "rejected" }
InFlight == { k \in 1..Len(packages) : promises[k] = "pending" }

\* C1: analyzeLicenses never raises, whichever detections fail, and returns
\* exactly one analysis per package whose detection succeeded and none for the
\* others (N-1 analyses when one detection fails, none when all fail).
C1_PartialSuccess ==
  /\ pc # "threw"
  /\ pc = "done" =>
       /\ ret.kind = "analyses"
       /\ Len(ret.value) = Len(packages) - Cardinality(Failed)
       /\ \A k \in Succeeded :
            Cardinality({ a \in 1..Len(ret.value) : ret.value[a].package = k }) = 1
       /\ \A k \in Failed :
            \A a \in 1..Len(ret.value) : ret.value[a].package # k

\* eleven packages, exactly one failed detection, ten analyses returned
C1_Witness ==
  /\ pc = "done"
  /\ Len(packages) = 11
  /\ Cardinality(Failed) = 1
  /\ Len(ret.value) = 10

\* all detections failed: the empty list is returned
C1_WitnessAllFail ==
  /\ pc = "done"
  /\ Len(packages) = 3
  /\ Failed = 1..3
  /\ ret.value = << >>

\* C2: the packages are cut in input order into consecutive batches of 10 (the
\* last one possibly smaller); the detections of one batch are started
\* together, and none of a later batch is started before every detection of
\* the earlier batches has settled, by success or by failure.
C2_BatchJoin ==
  \A j, k \in 1..Len(packages) :
    /\ ((j - 1) \div 10 = (k - 1) \div 10) =>
         ((promises[j] = "unstarted") <=> (promises[k] = "unstarted"))
    /\ ((j - 1) \div 10 < (k - 1) \div 10 /\ promises[k] # "unstarted") =>
         Settled(j)

\* the second batch is in flight after a first batch with a failed detection
C2_Witness ==
  /\ pc = "await"
  /\ Len(packages) = 11
  /\ promises[11] = "pending"
  /\ \E j \in 1..10 : promises[j] = "rejected"
  /\ \E j \in 1..10 : promises[j] = "fulfilled"

\* C3: at most 10 detections are started and not yet settled, at any time and
\* for any number of packages.
C3_BoundedFanOut == Cardinality(InFlight) <= 10

\* ten detections in flight at once, of more than ten packages
C3_Witness == Cardinality(InFlight) = 10 /\ Len(packages) > 10

\* C4: the returned list holds the analyses of the successful packages in the
\* order of the input list, whatever the order in which the detections
\* settle: a result sits at its package's place in its batch, not at its rank
\* of completion.
C4_InputOrder ==
  /\ pc = "await" =>
       \A slot \in 1..Len(batchResults) :
         batchResults[slot].status = "fulfilled" =>
           batchResults[slot].value[1] = detectLicense(packages[i + slot], FALSE).value
  /\ \A a, b \in 1..Len(analyses) : a < b => analyses[a].package < analyses[b].package
  /\ pc = "done" =>
       /\ \A a, b \in 1..Len(ret.value) :
            a < b => ret.value[a].package < ret.value[b].package
       /\ { ret.value[a].package : a \in 1..Len(ret.value) } = Succeeded
       /\ \A a \in 1..Len(ret.value) :
            ret.value[a] = detectLicense(packages[ret.value[a].package], FALSE).value

\* a later package of the batch has settled while an earlier one is pending
C4_Witness ==
  /\ pc = "await"
  /\ Len(packages) = 11
  /\ promises[1] = "pending"
  /\ promises[2] = "rejected"
  /\ promises[3] = "fulfilled"

\* C23: when every started detection eventually settles, analyzeLicenses
\* eventually returns, having started the detection of every package exactly
\* once; and as nothing times out or cancels, it does not return while a
\* detection is unsettled, and starts no detection of a later batch before
\* then.
C23_Termination ==
  /\ <>(pc = "done")
  /\ [](pc = "done" => \A k \in 1..Len(packages) : started[k] = 1)
  /\ [](\A j \in 1..Len(packages) :
          ~Settled(j) =>
            /\ pc # "done"
            /\ \A k \in 1..Len(packages) :
                 (j - 1) \div batchSize < (k - 1) \div batchSize => started[k] = 0)

\* eleven packages, each started once, and the call has returned
C23_Witness ==
  /\ pc = "done"
  /\ Len(packages) > batchSize
  /\ \A k \in 1..Len(packages) : started[k] = 1 /\ Settled(k)

\* one detection of the first batch is the only one left pending: the call
\* waits and no package of the second batch is started
C23_WitnessWaiting ==
  /\ pc = "await"
  /\ Len(packages) > batchSize
  /\ InFlight = {4}
  /\ \A k \in 1..Len(packages) : started[k] = (IF k <= batchSize THEN 1 ELSE 0)

(***************************************************************************)
(* Claims about validatePolicy (SpecPolicy).                               *)
(***************************************************************************)
\* C5: validatePolicy is idempotent: called again on the same packages, with
\* the same detection outcomes, and the same policy, it returns the same
\* compliant flag and the same violations in the same order.
C5_Idempotent ==
  (pc = "done" /\ calls >= 1) =>
    /\ ret.compliant = prev.compliant
    /\ ret.violations = prev.violations

\* a second call has returned, on two packages with violations
C5_Witness ==
  /\ pc = "done"
  /\ calls = 1
  /\ Len(analyses) = 2
  /\ \E a, b \in 1..Len(ret.violations) :
       ret.violations[a].package # ret.violations[b].package

\* the four rules of validatePolicy, in the order the loop body tests them
RuleText(r) ==
  CASE r = 1 -> "License is explicitly prohibited"
    [] r = 2 -> "License requires legal review"
    [] r = 3 -> "License category is prohibited"
    [] r = 4 -> "License risk level exceeds policy tolerance"

RuleSeverity(r) ==
  CASE r = 1 -> "critical"
    [] r = 2 -> "warning"
    [] r = 3 -> "error"
    [] r = 4 -> "critical"

\* whether rule r applies to license l of analysis a; the category rule that
\* counts for a license is the one the lookup by category yields, the first of
\* its category
RuleApplies(r, a, l) ==
  CASE r = 1 -> l.spdxId \in policy.prohibitedLicenses
    [] r = 2 -> l.spdxId \in policy.reviewRequiredLicenses \ policy.allowedLicenses
    [] r = 3 -> \E q \in 1..Len(policy.categoryRules) :
                  /\ policy.categoryRules[q].category = l.category
                  /\ policy.categoryRules[q].action = "prohibit"
                  /\ \A q0 \in 1..(q - 1) : policy.categoryRules[q0].category # l.category
    [] r = 4 -> a.riskLevel = "CRITICAL" /\ policy.maximumRiskLevel # "CRITICAL"

\* the (analysis, license, rule) triples that fire, by position
Fired ==
  { t \in UNION { { << a, l, r >> : l \in 1..Len(analyses[a].licenses), r \in 1..4 } :
                  a \in 1..Len(analyses) } :
      RuleApplies(t[3], analyses[t[1]], analyses[t[1]].licenses[t[2]]) }

\* analysis order, then license order, then rule order
Before(t, u) ==
  \/ t[1] < u[1]
  \/ t[1] = u[1] /\ t[2] < u[2]
  \/ t[1] = u[1] /\ t[2] = u[2] /\ t[3] < u[3]

\* C6: every rule that applies to an (analysis, license) pair contributes
\* exactly one violation, whatever other rules apply to the pair; the
\* violations come in analysis order, then license order, then the rule order
\* prohibited, review-required, category, risk tolerance; and compliant is
\* true exactly when there is no violation.
C6_IndependentRules ==
  pc = "done" =>
    /\ Len(ret.violations) = Cardinality(Fired)
    /\ \A t \in Fired :
         ret.violations[1 + Cardinality({ u \in Fired : Before(u, t) })] =
           [package   |-> analyses[t[1]].package,
            license   |-> analyses[t[1]].licenses[t[2]].spdxId,
            violation |-> RuleText(t[3]),
            severity  |-> RuleSeverity(t[3])]
    /\ ret.compliant <=> (ret.violations = << >>)

\* a license that is prohibited and review-required-but-not-allowed, of a
\* CRITICAL analysis under a lower tolerance and a prohibited category: the
\* four rules fire on one pair, after an earlier license of the same analysis
C6_Witness ==
  /\ pc = "done"
  /\ \E t1, t2, t3, t4 \in Fired :
       /\ t1[3] = 1 /\ t2[3] = 2 /\ t3[3] = 3 /\ t4[3] = 4
       /\ t1[2] = 2
       /\ \A t \in {t2, t3, t4} : t[1] = t1[1] /\ t[2] = t1[2]
  /\ Len(ret.violations) >= 5
  /\ ~ret.compliant

\* C7: an error violation is emitted for a license whenever some rule of
\* policy.categoryRules has the license's category and action prohibit, also
\* when the list holds several rules for that category.
C7_AnyProhibitRule ==
  pc = "done" =>
    \A a \in 1..Len(analyses) : \A l \in 1..Len(analyses[a].licenses) :
      (\E q \in 1..Len(policy.categoryRules) :
         /\ policy.categoryRules[q].category = analyses[a].licenses[l].category
         /\ policy.categoryRules[q].action = "prohibit")
      => \E v \in 1..Len(ret.violations) :
           /\ ret.violations[v].package = analyses[a].package
           /\ ret.violations[v].license = analyses[a].licenses[l].spdxId
           /\ ret.violations[v].severity = "error"

\* package k contributes no (analysis, license) pair: its detection failed, or
\* its analysis has no license
NoPair(k) ==
  \/ promises[k] = "rejected"
  \/ \E a \in 1..Len(analyses) :
       analyses[a].package = k /\ analyses[a].licenses = << >>

\* C26: every violation validatePolicy reports names a license of the analysis
\* of its package, so a package without an (analysis, license) pair is never
\* reported; and when every package failed detection or has no license the
\* result is compliant with an empty violation list, whatever the policy.
C26_NoPairNoViolation ==
  (pc = "done") =>
    /\ \A v \in 1..Len(ret.violations) :
         /\ ~NoPair(ret.violations[v].package)
         /\ \E a \in 1..Len(analyses) :
              /\ analyses[a].package = ret.violations[v].package
              /\ \E l \in 1..Len(analyses[a].licenses) :
                   analyses[a].licenses[l].spdxId = ret.violations[v].license
    /\ (\A k \in 1..Len(packages) : NoPair(k)) =>
         ret.compliant /\ ret.violations = << >>

\* one detection failed, the other package has no license, and the policy
\* prohibits a license and a category, requires reviews and tolerates no
\* critical risk: the result is compliant
C26_Witness ==
  /\ pc = "done"
  /\ Len(packages) = 2
  /\ promises[1] = "rejected"
  /\ Len(analyses) = 1 /\ analyses[1].package = 2 /\ analyses[1].licenses = << >>
  /\ policy.prohibitedLicenses # {}
  /\ policy.reviewRequiredLicenses # {} /\ policy.allowedLicenses = {}
  /\ policy.categoryRules # << >>
  /\ policy.maximumRiskLevel # "CRITICAL"
  /\ ret.compliant /\ ret.violations = << >>

\* a package without a license next to one that violates the policy: only the
\* latter is reported
C26_WitnessMixed ==
  /\ pc = "done"
  /\ Len(analyses) = 2
  /\ analyses[1].licenses = << >>
  /\ ret.violations # << >>
  /\ \A v \in 1..Len(ret.violations) : ret.violations[v].package = analyses[2].package

(***************************************************************************)
(* Claims about the score-to-level mappings (SpecLevels).                  *)
(***************************************************************************)
Rank(level) ==
  CASE level = "VERY_LOW"  -> 0
    [] level = "LOW"       -> 1
    [] level = "MEDIUM"    -> 2
    [] level = "HIGH"      -> 3
    [] level = "VERY_HIGH" -> 4
    [] level = "CRITICAL"  -> 5

\* the level of x on the scale with the inclusive lower bounds b1 < ... < b5
OnScale(x, b1, b2, b3, b4, b5) ==
  CASE x >= b5            -> "CRITICAL"
    [] x >= b4 /\ x < b5  -> "VERY_HIGH"
    [] x >= b3 /\ x < b4  -> "HIGH"
    [] x >= b2 /\ x < b3  -> "MEDIUM"
    [] x >= b1 /\ x < b2  -> "LOW"
    [] x < b1             -> "VERY_LOW"

\* C8: both mappings use inclusive lower-bound breakpoints, 2/5/10/15/20 per
\* analysis and 10/20/40/60/80 per project, and are monotonic non-decreasing
\* in the score.
C8_Breakpoints ==
  /\ mapped.license # "none" =>
       /\ mapped.license = OnScale(score, 2, 5, 10, 15, 20)
       /\ \A lower \in 0..score :
            Rank(LicenseRiskLevel(lower)) <= Rank(mapped.license)
  /\ mapped.project # "none" =>
       /\ mapped.project = OnScale(score, 10, 20, 40, 60, 80)
       /\ \A lower \in 0..score :
            Rank(determineOverallRisk(JsInt(lower))) <= Rank(mapped.project)

\* the boundary score 20 maps to CRITICAL per analysis (and MEDIUM per project)
C8_Witness ==
  /\ score = 20
  /\ mapped.license = "CRITICAL"
  /\ mapped.project = "MEDIUM"

\* the score 19, just under the boundary, maps to VERY_HIGH per analysis
C8_WitnessBelow ==
  /\ score = 19
  /\ mapped.license = "VERY_HIGH"

(***************************************************************************)
(* Claims about the project risk score of assessLegalRisk (SpecRisk).      *)
(***************************************************************************)
\* C9: with at least one analysis, riskScore is round(mean of the per-analysis
\* risk weights + summary.riskScore) clamped to [0,100]: the compatibility
\* risk score is added in full to the mean.
C9_MeanPlusCompat ==
  (pc = "done" /\ Len(analyses) > 0) =>
    LET n       == Len(analyses)
        rounded == (2 * (SumRiskWeights(analyses) + n * report.riskScore) + n) \div (2 * n)
        clamped == IF rounded < 0 THEN 0 ELSE IF rounded > 100 THEN 100 ELSE rounded
    IN  ret.riskScore = JsInt(clamped)

\* C10: with no analysis to score, riskScore is the number 0 and overallRisk
\* the level of 0.
C10_EmptyIsZero ==
  (pc = "done" /\ Len(analyses) = 0) =>
    /\ ret.riskScore = JsInt(0)
    /\ ret.overallRisk = "VERY_LOW"

(***************************************************************************)
(* Claims about the analyses of detectLicense (SpecDetect).                *)
(***************************************************************************)
\* the analyses analyzeLicenses returned, and the package each was made from
Returned == IF pc = "done" THEN 1..Len(ret.value) ELSE {}
PackageOf(a) == packages[ret.value[a].package]

\* the declared expression of pkg is, as a whole, an identifier of the store
DeclaredExactly(pkg) ==
  pkg.license # << >> /\ getLicense(pkg.license[1].text) # << >>

\* C11: when the declared license string exactly matches a store entry, the
\* licenses of the analysis hold that spdxId with confidence 1.0, whatever
\* license files are present (also a file that reads as the same license at a
\* lower confidence).
C11_DeclaredExact ==
  \A a \in Returned :
    DeclaredExactly(PackageOf(a)) =>
      \E l \in 1..Len(ret.value[a].licenses) :
        /\ ret.value[a].licenses[l].spdxId = PackageOf(a).license[1].text
        /\ ret.value[a].licenses[l].confidence = 10

\* a package declaring MIT whose LICENSE file reads as MIT at 0.9
C11_Witness ==
  \E a \in Returned :
    /\ DeclaredExactly(PackageOf(a))
    /\ PackageOf(a).license[1].text = "MIT"
    /\ \E f \in 1..Len(ret.value[a].licenseFiles) :
         /\ ret.value[a].licenseFiles[f].license.spdxId = "MIT"
         /\ ret.value[a].licenseFiles[f].confidence = 9
    /\ \E l \in 1..Len(ret.value[a].licenses) :
         /\ ret.value[a].licenses[l].spdxId = "MIT"
         /\ ret.value[a].licenses[l].confidence = 10

\* pkg declares no license and none of its candidate files matches a pattern
NoSignal(pkg) ==
  /\ pkg.license = << >>
  /\ pkg.path =>
       \A f \in 1..Len(LICENSE_FILE_PATTERNS) :
         ~(pkg.files[f].exists /\ pkg.files[f].matches # {})

\* C12: a package with no declared license and no candidate file matching a
\* pattern (no file at all, or no filesystem root, included) is analysed without
\* raising: licenses = [], no primaryLicense, and an issue missing_license of
\* severity error.
C12_MissingLicense ==
  /\ \A k \in 1..Len(packages) :
       (Settled(k) /\ NoSignal(packages[k])) => promises[k] = "fulfilled"
  /\ \A a \in Returned :
       NoSignal(PackageOf(a)) =>
         /\ ret.value[a].licenses = << >>
         /\ ret.value[a].primaryLicense = << >>
         /\ \E n \in 1..Len(ret.value[a].issues) :
              /\ ret.value[a].issues[n].type = "missing_license"
              /\ ret.value[a].issues[n].severity = "error"

\* two such packages analysed, one without a filesystem root, the other with a
\* LICENSE file that matches nothing, the store being down for the latter
C12_Witness ==
  /\ pc = "done"
  /\ Len(ret.value) = 2
  /\ \A a \in Returned : NoSignal(PackageOf(a)) /\ ret.value[a].licenses = << >>
  /\ ~packages[1].path
  /\ packages[2].files[1].exists
  /\ dbFault[2] = "yes"

\* the confidences of the signals of analysis a that detected spdxId: the
\* declared license as it resolved, and each license file of the analysis
SignalConfidences(a, spdxId) ==
  { d.confidence : d \in { x \in { detectDeclaredLicense(PackageOf(a))[n] :
                                     n \in 1..Len(detectDeclaredLicense(PackageOf(a))) } :
                             x.spdxId = spdxId } }
  \cup { ret.value[a].licenseFiles[f].confidence :
           f \in { g \in 1..Len(ret.value[a].licenseFiles) :
                     ret.value[a].licenseFiles[g].license.spdxId = spdxId } }

\* C13: in every analysis the licenses list holds each spdxId at most once, and
\* the confidence on record for an spdxId is the greatest confidence among the
\* signals (declared license, license files) that detected it.
C13_DedupMaxConfidence ==
  \A a \in Returned :
    LET licenses == ret.value[a].licenses
    IN  /\ \A l, m \in 1..Len(licenses) :
             licenses[l].spdxId = licenses[m].spdxId => l = m
        /\ \A l \in 1..Len(licenses) :
             /\ licenses[l].confidence \in SignalConfidences(a, licenses[l].spdxId)
             /\ \A c \in SignalConfidences(a, licenses[l].spdxId) :
                  c <= licenses[l].confidence

\* MIT declared inside an expression (0.8) and read from two files (0.9): one
\* MIT entry, at 0.9
C13_Witness ==
  \E a \in Returned :
    /\ SignalConfidences(a, "MIT") = {8, 9}
    /\ Len(ret.value[a].licenseFiles) = 2
    /\ Len(ret.value[a].licenses) = 1
    /\ ret.value[a].licenses[1].confidence = 9

\* rule (a) applies to analysis a: the declared license resolved and its
\* spdxId is among the licenses
DeclaredPresent(a) ==
  /\ detectDeclaredLicense(PackageOf(a)) # << >>
  /\ \E l \in 1..Len(ret.value[a].licenses) :
       ret.value[a].licenses[l].spdxId = detectDeclaredLicense(PackageOf(a))[1].spdxId

PermissiveAt(a) ==
  { l \in 1..Len(ret.value[a].licenses) :
      ret.value[a].licenses[l].category = "permissive" }

\* C14: the primary license is (a) the entry of the declared license when it
\* resolved and is among the licenses; (b) otherwise, when a permissive license
\* is present, a permissive license of the highest confidence among the
\* permissive ones; (c) otherwise a license of the highest confidence overall;
\* and there is no primary license when there is no license.
C14_PrimarySelection ==
  \A a \in Returned :
    LET licenses == ret.value[a].licenses
        primary  == ret.value[a].primaryLicense
    IN  IF licenses = << >> THEN primary = << >>
        ELSE /\ primary # << >>
             /\ \E l \in 1..Len(licenses) : licenses[l] = primary[1]
             /\ IF DeclaredPresent(a)
                   THEN primary[1].spdxId = detectDeclaredLicense(PackageOf(a))[1].spdxId
                 ELSE IF PermissiveAt(a) # {}
                   THEN /\ primary[1].category = "permissive"
                        /\ \A l \in PermissiveAt(a) :
                             licenses[l].confidence <= primary[1].confidence
                 ELSE \A l \in 1..Len(licenses) :
                        licenses[l].confidence <= primary[1].confidence

\* rule (a) picks the declared GPL-3.0-only over a permissive license, and
\* rule (b) picks MIT (0.9), which comes after GPL-3.0-only and ISC (0.8)
C14_Witness ==
  \E a, b \in Returned :
    /\ DeclaredPresent(a)
    /\ ret.value[a].primaryLicense[1].spdxId = "GPL-3.0-only"
    /\ PermissiveAt(a) # {}
    /\ ~DeclaredPresent(b)
    /\ Len(ret.value[b].licenses) = 3
    /\ ret.value[b].licenses[3] = ret.value[b].primaryLicense[1]
    /\ ret.value[b].primaryLicense[1].spdxId = "MIT"

\* rule (c) picks LGPL-3.0-only (0.9) over CC0-1.0 (0.8), no license being
\* permissive
C14_WitnessHighest ==
  \E a \in Returned :
    /\ ~DeclaredPresent(a)
    /\ PermissiveAt(a) = {}
    /\ Len(ret.value[a].licenses) = 2
    /\ ret.value[a].primaryLicense[1].spdxId = "LGPL-3.0-only"
    /\ ret.value[a].licenseFiles[1].license.spdxId = "CC0-1.0"

\* the positions of the issues of the given type in analysis a
IssuesOfType(a, type) ==
  { n \in 1..Len(ret.value[a].issues) : ret.value[a].issues[n].type = type }

\* C15: an analysis carries a conflicting_licenses issue (critical) exactly
\* when it has more than one license and either a proprietary license or more
\* than one copyleft license; a package declaring MIT whose LICENSE file reads
\* as Apache-2.0 has the licenses MIT (1.0), Apache-2.0 (0.9) and no such
\* issue; and the issue suppresses neither the deprecated_license issues (one
\* per license with deprecated identifiers) nor the unrecognized_license issue.
C15_ConflictingLicenses ==
  \A a \in Returned :
    LET licenses == ret.value[a].licenses
        at(cat)  == { l \in 1..Len(licenses) : licenses[l].category = cat }
    IN  /\ (IssuesOfType(a, "conflicting_licenses") # {})
             <=> /\ Len(licenses) > 1
                 /\ at("proprietary") # {} \/ Cardinality(at("copyleft")) > 1
        /\ Cardinality(IssuesOfType(a, "conflicting_licenses")) <= 1
        /\ \A n \in IssuesOfType(a, "conflicting_licenses") :
             ret.value[a].issues[n].severity = "critical"
        /\ PackageOf(a) = Pkg(PackageOf(a).name, ShapeMITFileApache) =>
             /\ Len(licenses) = 2
             /\ licenses[1].spdxId = "MIT" /\ licenses[1].confidence = 10
             /\ licenses[2].spdxId = "Apache-2.0" /\ licenses[2].confidence = 9
             /\ IssuesOfType(a, "conflicting_licenses") = {}
        /\ Cardinality(IssuesOfType(a, "deprecated_license"))
             = Cardinality({ l \in 1..Len(licenses) : licenses[l].deprecated })
        /\ (IssuesOfType(a, "unrecognized_license") # {})
             <=> /\ PackageOf(a).license # << >>
                 /\ detectDeclaredLicense(PackageOf(a)) = << >>

\* the MIT/Apache-2.0 package without the issue, next to a package with two
\* copyleft licenses that carries it together with two deprecated_license
\* issues and the unrecognized_license issue
C15_Witness ==
  \E a, b \in Returned :
    /\ PackageOf(a) = Pkg(PackageOf(a).name, ShapeMITFileApache)
    /\ IssuesOfType(a, "conflicting_licenses") = {}
    /\ Cardinality(IssuesOfType(b, "conflicting_licenses")) = 1
    /\ Cardinality(IssuesOfType(b, "deprecated_license")) = 2
    /\ Cardinality(IssuesOfType(b, "unrecognized_license")) = 1

\* a proprietary license next to a permissive one carries the issue
C15_WitnessProprietary ==
  \E a \in Returned :
    /\ Len(ret.value[a].licenses) = 2
    /\ ret.value[a].licenses[1].category = "proprietary"
    /\ ret.value[a].licenses[2].category = "permissive"
    /\ IssuesOfType(a, "conflicting_licenses") # {}

\* a fault occurs at some step of the detection of package k: the store
\* raises at the lookup of the declared license, an existing license file
\* cannot be read, or the store raises at the lookup made for a file whose
\* text matched a pattern
FaultAt(k) ==
  \/ dbFault[k] = "yes" /\ packages[k].license # << >>
  \/ /\ packages[k].path
     /\ \E f \in 1..Len(LICENSE_FILE_PATTERNS) :
          /\ packages[k].files[f].exists
          /\ \/ packages[k].files[f].unreadable
             \/ dbFault[k] = "yes" /\ packages[k].files[f].matches # {}

\* C20: a fault at any step of detectLicense (declared-license resolution,
\* reading an existing license file, the store lookup made while
\* fingerprinting a file) makes the call fail; it is never swallowed into a
\* successful analysis; and without a fault the call succeeds, whichever files
\* are absent.
C20_FaultsFail ==
  \A k \in 1..Len(packages) :
    Settled(k) => (promises[k] = "rejected" <=> FaultAt(k))

\* the weights the risk scoring is stated with
StatedCategoryWeight(category) ==
  CASE category = "permissive"    -> 1
    [] category = "weak_copyleft" -> 3
    [] category = "copyleft"      -> 5
    [] category = "proprietary"   -> 10
    [] category = "custom"        -> 7
    [] category = "unknown"       -> 8
    [] category = "public_domain" -> 0

StatedSeverityWeight(severity) ==
  CASE severity = "critical" -> 10
    [] severity = "high"     -> 5
    [] severity = "medium"   -> 2
    [] severity = "low"      -> 1

RECURSIVE StatedCategorySum(_, _)
\* the sum of the category weights of licenses[n..]
StatedCategorySum(licenses, n) ==
  IF n > Len(licenses) THEN 0
  ELSE StatedCategoryWeight(licenses[n].category) + StatedCategorySum(licenses, n + 1)

RECURSIVE StatedSeveritySum(_)
\* the sum of the severity weights of a set of obligation types
StatedSeveritySum(types) ==
  IF types = {} THEN 0
  ELSE LET t == CHOOSE x \in types : TRUE
       IN  StatedSeverityWeight(ObligationSeverity(t)) + StatedSeveritySum(types \ {t})

\* the obligation types some license of the list carries
ObligationTypes(licenses) ==
  UNION { { licenses[l].obligations[n] : n \in 1..Len(licenses[l].obligations) } :
          l \in 1..Len(licenses) }

\* C22: the riskLevel of an analysis is a function of its licenses only: the
\* per-analysis breakpoint mapping (2/5/10/15/20) of the sum of the category
\* weights of its licenses plus the sum of the severity weights of its
\* obligations, each obligation type counted once however many licenses carry
\* it.
C22_RiskLevelOfLicenses ==
  /\ \A a \in Returned :
       ret.value[a].riskLevel =
         OnScale(StatedCategorySum(ret.value[a].licenses, 1)
                   + StatedSeveritySum(ObligationTypes(ret.value[a].licenses)),
                 2, 5, 10, 15, 20)
  /\ \A a, b \in Returned :
       ret.value[a].licenses = ret.value[b].licenses =>
         ret.value[a].riskLevel = ret.value[b].riskLevel

\* MIT and Apache-2.0 share attribution and notice_preservation: 1 + 1 for
\* the categories, 2 + 2 + 2 for the three obligation types, MEDIUM (counted
\* per license the score would be 12, HIGH)
C22_Witness ==
  \E a \in Returned :
    /\ Len(ret.value[a].licenses) = 2
    /\ ret.value[a].licenses[1].spdxId = "MIT"
    /\ ret.value[a].licenses[2].spdxId = "Apache-2.0"
    /\ Len(ret.value[a].obligations) = 3
    /\ ret.value[a].riskLevel = "MEDIUM"

RECURSIVE FirstSeen(_, _)
\* ids followed by the identifiers of more that are not yet listed, each at
\* its first occurrence
FirstSeen(ids, more) ==
  IF more = << >> THEN ids
  ELSE IF \E n \in 1..Len(ids) : ids[n] = Head(more)
         THEN FirstSeen(ids, Tail(more))
         ELSE FirstSeen(Append(ids, Head(more)), Tail(more))

\* the identifiers of analysis a in insertion order: the declared license when
\* it resolved, then the licenses of the files in the order of the candidate
\* filenames
InsertionOrder(a) ==
  FirstSeen(SpdxIds(detectDeclaredLicense(PackageOf(a))),
            [f \in 1..Len(ret.value[a].licenseFiles) |->
               ret.value[a].licenseFiles[f].license.spdxId])

\* C24: in every returned analysis the licenses are in insertion order (the
\* declared license first when it resolved, then the file-derived licenses in
\* the order of the candidate filenames that first produced each spdxId),
\* whichever rule selected the primary license.
C24_LicensesInInsertionOrder ==
  \A a \in Returned : SpdxIds(ret.value[a].licenses) = InsertionOrder(a)

(***************************************************************************)
(* Claims about the legal risk report of assessLegalRisk (SpecRisk).       *)
(***************************************************************************)
UrgencyRank(urgency) ==
  CASE urgency = "low"    -> 0
    [] urgency = "medium" -> 1
    [] urgency = "high"   -> 2
    [] urgency = "urgent" -> 3

\* the rules of the legal-review decision that fire on the report returned
ReviewRulesFired ==
  { r \in 1..3 :
      CASE r = 1 -> \/ ret.overallRisk = "CRITICAL"
                    \/ \E f \in 1..Len(ret.riskFactors) :
                         ret.riskFactors[f].impact = "critical"
        [] r = 2 -> \E f \in 1..Len(ret.riskFactors) :
                      ret.riskFactors[f].category = "license_compatibility"
        [] r = 3 -> ret.overallRisk \in {"HIGH", "VERY_HIGH"} }

\* the urgency rule r demands, and the scope entry it contributes
ReviewRuleRank(r) == CASE r = 1 -> 3 [] r = 2 -> 2 [] r = 3 -> 1

ReviewRuleScope(r) ==
  CASE r = 1 -> "Critical risk mitigation"
    [] r = 2 -> "License compatibility analysis"
    [] r = 3 -> "General license compliance review"

\* C16: the urgency of the legal review is the greatest urgency demanded by
\* the rules that fire (urgent for a CRITICAL overall risk or a factor of
\* critical impact, high for a license_compatibility factor, medium for a HIGH
\* or VERY_HIGH overall risk), low when none fires; required is true exactly
\* when a rule fires; scope holds one entry per rule that fired; and
\* estimatedHours is 4 times the number of scope entries.
C16_LegalReview ==
  (pc = "done") =>
    LET review == ret.legalReview
    IN  /\ \A r \in ReviewRulesFired : ReviewRuleRank(r) <= UrgencyRank(review.urgency)
        /\ \/ UrgencyRank(review.urgency) = 0 /\ ReviewRulesFired = {}
           \/ \E r \in ReviewRulesFired : ReviewRuleRank(r) = UrgencyRank(review.urgency)
        /\ review.required <=> (ReviewRulesFired # {})
        /\ Len(review.scope) = Cardinality(ReviewRulesFired)
        /\ \A r \in ReviewRulesFired :
             Cardinality({ n \in 1..Len(review.scope) :
                             review.scope[n] = ReviewRuleScope(r) }) = 1
        /\ review.estimatedHours = 4 * Len(review.scope)

\* the three rules fire on one report (a conflict, overall risk HIGH): the
\* medium of the last rule does not lower the urgency
C16_Witness ==
  /\ pc = "done"
  /\ ReviewRulesFired = {1, 2, 3}
  /\ ret.overallRisk = "HIGH"
  /\ ret.legalReview.urgency = "urgent"
  /\ ret.legalReview.estimatedHours = 12

\* the third rule alone: medium, one scope entry, 4 hours
C16_WitnessMedium ==
  /\ pc = "done"
  /\ ReviewRulesFired = {3}
  /\ ret.legalReview.urgency = "medium"
  /\ ret.legalReview.estimatedHours = 4

\* no rule fires: not required, low, 0 hours
C16_WitnessNone ==
  /\ pc = "done"
  /\ ReviewRulesFired = {}
  /\ ~ret.legalReview.required
  /\ ret.legalReview.urgency = "low"
  /\ ret.legalReview.scope = << >>

\* the analyses, and the licenses in them, whose spdxId contains 'AGPL'
AGPLPairs ==
  { t \in UNION { { << a, l >> : l \in 1..Len(analyses[a].licenses) } :
                  a \in 1..Len(analyses) } :
      analyses[t[1]].licenses[t[2]].spdxId \in {"AGPL-3.0-only"} }

\* C17: jurisdictionRisks holds exactly one entry, {jurisdiction: Global,
\* riskLevel: HIGH}, when some license of some analysis has an spdxId
\* containing 'AGPL', however many do, and is empty otherwise.
C17_JurisdictionRisk ==
  (pc = "done") =>
    IF AGPLPairs # {}
      THEN /\ Len(ret.jurisdictionRisks) = 1
           /\ ret.jurisdictionRisks[1].jurisdiction = "Global"
           /\ ret.jurisdictionRisks[1].riskLevel = "HIGH"
      ELSE ret.jurisdictionRisks = << >>

\* two packages under AGPL-3.0-only, one entry
C17_Witness ==
  /\ pc = "done"
  /\ Cardinality(AGPLPairs) = 2
  /\ Len(ret.jurisdictionRisks) = 1

\* copyleft licenses, none of them AGPL: no entry
C17_WitnessEmpty ==
  /\ pc = "done"
  /\ Len(analyses) = 2
  /\ \A a \in 1..2 : /\ Len(analyses[a].licenses) = 1
                      /\ analyses[a].licenses[1].spdxId = "GPL-3.0-only"
  /\ ret.jurisdictionRisks = << >>

\* the positions of the license_compatibility factors of the report returned
CompatibilityFactors ==
  { f \in 1..Len(ret.riskFactors) : ret.riskFactors[f].category = "license_compatibility" }

\* C25: in every legal risk report legalReview.urgency is low, medium or
\* urgent and never high: every license_compatibility risk factor has impact
\* critical, so whenever the compatibility rule fires the urgency is urgent.
C25_UrgencyNeverHigh ==
  (pc = "done") =>
    /\ ret.legalReview.urgency # "high"
    /\ ret.legalReview.urgency \in {"low", "medium", "urgent"}
    /\ \A f \in CompatibilityFactors : ret.riskFactors[f].impact = "critical"
    /\ CompatibilityFactors # {} => ret.legalReview.urgency = "urgent"

\* a conflict reported on a project whose overall risk is below HIGH: the
\* critical rule fires on the factor alone and the urgency is urgent
C25_Witness ==
  /\ pc = "done"
  /\ CompatibilityFactors # {}
  /\ ret.overallRisk \notin {"HIGH", "VERY_HIGH", "CRITICAL"}
  /\ ret.legalReview.urgency = "urgent"
  /\ ret.legalReview.scope =
       << "Critical risk mitigation", "License compatibility analysis" >>

\* the two other urgencies are reached on reports without a conflict
C25_WitnessMedium ==
  pc = "done" /\ CompatibilityFactors = {} /\ ret.legalReview.urgency = "medium"

C25_WitnessLow ==
  pc = "done" /\ CompatibilityFactors = {} /\ ret.legalReview.urgency = "low"

(***************************************************************************)
(* Claims about generateComplianceDocument (SpecDoc).                      *)
(***************************************************************************)
SupportedFormat == options.format \in {"text", "html", "markdown", "json"}

\* C18: with a format other than text, html, markdown and json the call fails
\* with an error and returns no document, for any package list: it neither
\* returns a partial document nor falls back to another format.
C18_UnsupportedFormat ==
  /\ ~SupportedFormat => (pc # "done" /\ ret.kind # "document")
  /\ (~SupportedFormat /\ pc \notin {"idle", "await"}) =>
       (pc = "threw" /\ ret.kind = "error")
  /\ (SupportedFormat /\ pc \notin {"idle", "await"}) =>
       (pc = "done" /\ ret.kind = "document" /\ ret.format = options.format)

\* the format pdf, asked with two packages that were both analysed: the call
\* throws
C18_Witness ==
  /\ pc = "threw"
  /\ options.format = "pdf"
  /\ Len(analyses) = 2
  /\ ret.kind = "error"

\* a format that differs from a supported one by its case only
C18_WitnessCase ==
  /\ pc = "threw"
  /\ options.format = "TEXT"
  /\ packages = << >>

\* C19: in the grouped layout every analysis that has a primary license is
\* listed under the group of its primaryLicense's spdxId, also when the
\* primary license is not the first element of its licenses.
C19_GroupedByPrimary ==
  (pc = "done" /\ options.groupByLicense /\ options.format # "json") =>
    \A a \in 1..Len(analyses) :
      analyses[a].primaryLicense # << >> =>
        \E g \in 1..Len(ret.groups) :
          /\ ret.groups[g].licenseId = analyses[a].primaryLicense[1].spdxId
          /\ \E n \in 1..Len(ret.groups[g].packages) :
               ret.groups[g].packages[n] = analyses[a].package

(***************************************************************************)
(* Claims about the calls that use the Compatibility Engine (SpecEngine).  *)
(***************************************************************************)
\* C21: a fault the Compatibility Engine raises during assessLegalRisk,
\* generateCompatibilityReport or checkCompatibility reaches the caller as
\* that same fault, and nothing is retried: within one call the engine is
\* invoked at most once and the detection of each package is started at most
\* once.
C21_PropagateNoRetry ==
  /\ engineCalls <= 1
  /\ \A k \in 1..Len(packages) : started[k] <= 1
  /\ engineFault # NoFault =>
       /\ pc = "threw"
       /\ ret.kind = "error"
       /\ ret.fault = engineFault
  /\ pc = "threw" => engineFault # NoFault
  /\ pc = "done" => (engineFault = NoFault /\ engineCalls = 1)

\* assessLegalRisk on two packages, one of which failed detection: the engine
\* raised RangeError after its only invocation and the call threw it
C21_Witness ==
  /\ pc = "threw"
  /\ op = "assessLegalRisk"
  /\ Len(packages) = 2
  /\ Failed # {}
  /\ engineFault = "RangeError"
  /\ ret.fault = "RangeError"
  /\ engineCalls = 1
  /\ \A k \in 1..2 : started[k] = 1

\* the same for checkCompatibility and generateCompatibilityReport
C21_WitnessCheck ==
  /\ pc = "threw"
  /\ op = "checkCompatibility"
  /\ ret.fault = "EngineError"

C21_WitnessReport ==
  /\ pc = "threw"
  /\ op = "generateCompatibilityReport"
  /\ ret.fault = "EngineError"
  /\ analyses # << >>
====
